---- MODULE Spec2Model ----
(***************************************************************************)
(* Payload discovery and normalisation layer of the monobook apps-sdk      *)
(* widgets (SearchRoomsWidget, SearchRoomsWidgetV2, BookingCardWidget).    *)
(*                                                                         *)
(* Two specifications live in this module:                                 *)
(*   Spec         the widget life cycle: bootstrap, the polling effect,    *)
(*                bridge harvesting, the message listener, the effect      *)
(*                re-run after a payload change, unmount;                  *)
(*   ExtractSpec  the pure extractors applied to a bounded universe of     *)
(*                candidate values.                                        *)
(***************************************************************************)
EXTENDS Integers, Sequences, FiniteSets, TLC

VARIABLES
    widget,        \* which of the three components is rendered
    mounted,       \* the component is in the tree
    payload,       \* useState payload (the value after the updates queued so far)
    loading,       \* useState loading
    effect,        \* which effect body ran last: "none", "poll" or "early"
    effectDeps,    \* the payload that effect body saw (its dependency)
    cancelled,     \* closure variable of the polling effect
    attempts,      \* closure variable of the polling effect
    timeoutId,     \* closure variable of the polling effect (0 = null)
    timers,        \* the timers pending in the host's timer queue: [id, ms]
    listener,      \* onMessage is attached to window
    windowOpenai,  \* window.openai as the host set it last
    tickBridge,    \* the bridge object captured by the suspended poll tick
    pc,            \* 0 = no tick suspended, i = suspended on BRIDGE_METHODS[i]
    polls,         \* number of loadBridgePayload calls started
    completed,     \* number of loadBridgePayload calls that returned
    lateCalls,     \* accessors invoked while cancelled was already set
    input,         \* ExtractSpec: the candidate, bridge or script text under test
    input2,        \* ExtractSpec: the `payload` query parameter under test
    outSearch,     \* ExtractSpec: result of the room-search variant
    outBooking,    \* ExtractSpec: result of the booking variant
    outCoerce,     \* ExtractSpec: coerceToRecord(input)
    outCandidates, \* ExtractSpec: the candidates array of loadBridgePayload
    sniffSearch,   \* ExtractSpec: hasSearchRoomsData of the coerced input
    sniffBooking,  \* ExtractSpec: hasBookingData of the coerced input
    phase,         \* ExtractSpec: which function is applied, and whether it was
    selectedRoomId,\* SelectSpec: the selectedRoomId state of the search widget
    picked,        \* SelectSpec: the rooms whose "Book now" was clicked, in order
    awaiting,      \* SelectSpec: onBookNow calls suspended at `await callTool`
    dispatched,    \* SelectSpec: the monobook:room-select events dispatched
    posted,        \* SelectSpec: the postMessage calls made on window.parent
    parentThrows,  \* SelectSpec: window.parent.postMessage throws
    heap,          \* WalkSpec: the objects of the candidate graph, by reference
    walkSearch,    \* WalkSpec: the room-search extractor runs (else the booking one)
    stack,         \* WalkSpec: the call frames of the running extractor
    returned       \* WalkSpec: what the outermost call gave back, if it has

vars == <<widget, mounted, payload, loading, effect, effectDeps, cancelled,
          attempts, timeoutId, timers, listener, windowOpenai, tickBridge,
          pc, polls, completed, lateCalls, input, input2, outSearch, outBooking,
          outCoerce, outCandidates, sniffSearch, sniffBooking, phase,
          selectedRoomId, picked, awaiting, dispatched, posted, parentThrows,
          heap, walkSearch, stack, returned>>

widgetVars == <<widget, mounted, payload, loading, effect, effectDeps,
                cancelled, attempts, timeoutId, timers, listener,
                windowOpenai, tickBridge, pc, polls, completed, lateCalls>>

extractVars == <<input, input2, outSearch, outBooking, outCoerce, outCandidates,
                 sniffSearch, sniffBooking, phase>>

selectVars == <<selectedRoomId, picked, awaiting, dispatched, posted, parentThrows>>

walkVars == <<heap, walkSearch, stack, returned>>

-----------------------------------------------------------------------------
(* JavaScript values as a closed sum type.  An object keeps its own        *)
(* enumerable properties in insertion order and carries an identity, so    *)
(* that two structurally identical objects can be distinct references.     *)

Null == [t |-> "null"]

Undefined == [t |-> "undefined"]

Num(n) == [t |-> "number", n |-> n]

Str(s) == [t |-> "string", s |-> s]

Bool(b) == [t |-> "boolean", b |-> b]

Arr(items) == [t |-> "array", items |-> items]

Obj(id, fields) == [t |-> "object", id |-> id, fields |-> fields]

P(k, v) == [k |-> k, v |-> v]

SyntaxError == [t |-> "SyntaxError"]

\* record[key]: the own property, undefined when there is none.
Get(value, key) ==
    IF value.t = "object" /\ \E i \in 1..Len(value.fields) : value.fields[i].k = key
    THEN LET i == CHOOSE j \in 1..Len(value.fields) : value.fields[j].k = key
         IN  value.fields[i].v
    ELSE Undefined

\* Object.prototype.hasOwnProperty.call(value, key)
HasOwn(value, key) ==
    value.t = "object" /\ \E i \in 1..Len(value.fields) : value.fields[i].k = key

\* Object.values(value), in property order (array: its items).
ObjectValues(value) ==
    IF value.t = "object"
    THEN [i \in 1..Len(value.fields) |-> value.fields[i].v]
    ELSE IF value.t = "array" THEN value.items ELSE <<>>

-----------------------------------------------------------------------------
(* The JSON texts that occur in the model, with the value JSON.parse gives *)
(* for each; every other text is a syntax error.  A parse builds a fresh   *)
(* object, identity 0.                                                     *)

RoomsObj == Obj(0, <<P("rooms", Arr(<<>>))>>)

CountRoomsObj == Obj(0, <<P("count", Num(2)), P("rooms", Arr(<<>>))>>)

BookingObj == Obj(0, <<P("booking_id", Str("b1"))>>)

NoteObj == Obj(0, <<P("note", Num(1))>>)

JSONparse(text) ==
    CASE text = "{\"rooms\":[]}" -> RoomsObj
      [] text = "{\"count\":2,\"rooms\":[]}" -> CountRoomsObj
      [] text = "{\"booking_id\":\"b1\"}" -> BookingObj
      [] text = "{\"note\":1}" -> NoteObj
      [] text = "{\"structuredContent\":{\"rooms\":[]}}" ->
             Obj(0, <<P("structuredContent", RoomsObj)>>)
      [] text = "{\"structuredContent\":{\"note\":1}}" ->
             Obj(0, <<P("structuredContent", NoteObj)>>)
      [] text = "{\"payload\":{\"rooms\":[]}}" ->
             Obj(0, <<P("payload", RoomsObj)>>)
      [] text = "{\"payload\":{\"booking_id\":\"b1\"}}" ->
             Obj(0, <<P("payload", BookingObj)>>)
      [] text = "[{\"rooms\":[]}]" -> Arr(<<RoomsObj>>)
      [] text = "42" -> Num(42)
      [] text = "true" -> Bool(TRUE)
      [] text = "\"abc\"" -> Str("abc")
      [] text = "null" -> Null
      [] OTHER -> SyntaxError

-----------------------------------------------------------------------------
(* Record coercion and the schema sniffers.                                *)

isRecord(value) == value.t \in {"object", "array"}

\* value: a string value or null.
parseJson(value) ==
    IF value.t # "string" \/ value.s = "" THEN Null
    ELSE LET parsed == JSONparse(value.s)
         IN  IF parsed = SyntaxError THEN Null ELSE parsed

\* Variant of coerceToRecord: whatever a string parses to is returned.
coerceToRecordAnyParsed(value) ==
    IF isRecord(value) THEN value
    ELSE IF value.t = "string" THEN parseJson(value)
    ELSE Null

coerceToRecord(value) ==
    IF isRecord(value) THEN value
    ELSE IF value.t = "string" /\ isRecord(parseJson(value)) THEN parseJson(value)
    ELSE Null

hasSearchRoomsData(value) ==
    \/ HasOwn(value, "rooms")
    \/ HasOwn(value, "hotels")
    \/ HasOwn(value, "count")
    \/ HasOwn(value, "property_name")
    \/ HasOwn(value, "error")

\* Variant of hasBookingData: any one of the four keys is enough.
hasBookingDataAnyKey(value) ==
    \/ HasOwn(value, "booking_id")
    \/ HasOwn(value, "status")
    \/ HasOwn(value, "total")
    \/ HasOwn(value, "check_in")

hasBookingData(value) ==
    \/ HasOwn(value, "booking_id")
    \/ /\ HasOwn(value, "status")
       /\ HasOwn(value, "total")
       /\ HasOwn(value, "check_in")

\* Variant of WRAPPER_KEYS: the keys are tried from the last to the first.
WRAPPER_KEYS_Reversed == <<"value", "tool_output", "toolOutput", "tool_result",
                           "toolResult", "response", "data", "output", "result">>

\* The wrapper keys, in the order of the `for (const key of [...])` sweep.
WRAPPER_KEYS == <<"result", "output", "data", "response", "toolResult",
                  "tool_result", "toolOutput", "tool_output", "value">>

\* The first non-null element of a sequence of extraction results.
FirstNonNull(results) ==
    IF \E i \in 1..Len(results) : results[i] # Null
    THEN results[CHOOSE i \in 1..Len(results) :
                     /\ results[i] # Null
                     /\ \A j \in 1..(i - 1) : results[j] = Null]
    ELSE Null

-----------------------------------------------------------------------------
(* The recursive payload extractors.                                       *)

\* Variant of structuredContentSearch: a record that itself carries search
\* data is preferred to its structuredContent.
structuredContentSearchAfterRecord(record) ==
    IF hasSearchRoomsData(record) THEN Null
    ELSE coerceToRecord(Get(record, "structuredContent"))

\* Step 2 of the room-search extractor: a coercible structuredContent is
\* returned as it is.
structuredContentSearch(record) ==
    coerceToRecord(Get(record, "structuredContent"))

\* Variant of structuredContentBooking: a coercible structuredContent is
\* returned without the sniffer.
structuredContentBookingUnchecked(record) ==
    coerceToRecord(Get(record, "structuredContent"))

\* Step 2 of the booking extractor: structuredContent must carry booking data.
structuredContentBooking(record) ==
    LET maybeStructured == coerceToRecord(Get(record, "structuredContent"))
    IN  IF maybeStructured # Null /\ hasBookingData(maybeStructured)
        THEN maybeStructured
        ELSE Null

\* Variant of contentTexts: the entries are visited from the last to the first.
contentTextsReversed(record) ==
    LET content == Get(record, "content")
    IN  IF content.t # "array" THEN <<>>
        ELSE [i \in 1..Len(content.items) |->
                 LET item == content.items[Len(content.items) + 1 - i]
                 IN  IF ~isRecord(item) THEN Null
                     ELSE IF Get(item, "text").t # "string" THEN Null
                     ELSE parseJson(Get(item, "text"))]

\* The JSON values of the text blocks of record.content, in array order;
\* entries that are skipped (not a record, text not a string) give null.
contentTexts(record) ==
    LET content == Get(record, "content")
    IN  IF content.t # "array" THEN <<>>
        ELSE [i \in 1..Len(content.items) |->
                 LET item == content.items[i]
                 IN  IF ~isRecord(item) THEN Null
                     ELSE IF Get(item, "text").t # "string" THEN Null
                     ELSE parseJson(Get(item, "text"))]

\* Variant of nestedSearch: the accepted nested record is merged into the
\* record that holds it.
nestedSearchMerged(record) ==
    LET found == FirstNonNull([i \in 1..Len(ObjectValues(record)) |->
            LET nested == coerceToRecord(ObjectValues(record)[i])
            IN  IF nested # Null /\ hasSearchRoomsData(nested) THEN nested
                ELSE Null])
    IN  IF found = Null \/ found.t # "object" \/ record.t # "object" THEN found
        ELSE Obj(record.id, record.fields \o found.fields)

\* Step 6: the first own value that coerces to a record the sniffer accepts.
nestedSearch(record) ==
    FirstNonNull([i \in 1..Len(ObjectValues(record)) |->
        LET nested == coerceToRecord(ObjectValues(record)[i])
        IN  IF nested # Null /\ hasSearchRoomsData(nested) THEN nested ELSE Null])

nestedBooking(record) ==
    FirstNonNull([i \in 1..Len(ObjectValues(record)) |->
        LET nested == coerceToRecord(ObjectValues(record)[i])
        IN  IF nested # Null /\ hasBookingData(nested) THEN nested ELSE Null])

RECURSIVE extractStructuredPayload(_)
extractStructuredPayload(raw) ==
    LET record == coerceToRecord(raw)
    IN  IF record = Null THEN Null
        ELSE IF structuredContentSearch(record) # Null
        THEN structuredContentSearch(record)
        ELSE LET wrapped == FirstNonNull([i \in 1..Len(WRAPPER_KEYS) |->
                     extractStructuredPayload(Get(record, WRAPPER_KEYS[i]))])
                 texts == contentTexts(record)
                 embedded == FirstNonNull([i \in 1..Len(texts) |->
                     extractStructuredPayload(texts[i])])
             IN  IF wrapped # Null THEN wrapped
                 ELSE IF embedded # Null THEN embedded
                 ELSE IF hasSearchRoomsData(record) THEN record
                 ELSE nestedSearch(record)

RECURSIVE extractBookingPayload(_)
extractBookingPayload(raw) ==
    LET record == coerceToRecord(raw)
    IN  IF record = Null THEN Null
        ELSE IF structuredContentBooking(record) # Null
        THEN structuredContentBooking(record)
        ELSE LET wrapped == FirstNonNull([i \in 1..Len(WRAPPER_KEYS) |->
                     extractBookingPayload(Get(record, WRAPPER_KEYS[i]))])
                 texts == contentTexts(record)
                 embedded == FirstNonNull([i \in 1..Len(texts) |->
                     extractBookingPayload(texts[i])])
             IN  IF wrapped # Null THEN wrapped
                 ELSE IF embedded # Null THEN embedded
                 ELSE IF hasBookingData(record) THEN record
                 ELSE nestedBooking(record)

\* The extractor of the widget w.
Extract(w, value) ==
    IF w = "BookingCardWidget" THEN extractBookingPayload(value)
    ELSE extractStructuredPayload(value)

-----------------------------------------------------------------------------
(* Program constants.                                                      *)

Widgets == {"SearchRoomsWidget", "SearchRoomsWidgetV2", "BookingCardWidget"}

BRIDGE_METHODS == <<"getInitialState", "getState", "getContext", "getToolOutput">>

BRIDGE_STATIC_KEYS == <<"toolOutput", "output", "data", "result", "response",
                        "toolResult", "tool_output", "tool_result", "state",
                        "value">>

MAX_BRIDGE_ATTEMPTS == 80

BRIDGE_POLL_INTERVAL_MS == 100

MAX_BRIDGE_ATTEMPTS_FAST == 100

BRIDGE_POLL_INTERVAL_FAST == 100

MAX_BRIDGE_ATTEMPTS_SLOW == 40

BRIDGE_POLL_INTERVAL_SLOW == 500

\* The total attempt budget of the widget w.
MaxAttempts(w) ==
    IF w = "BookingCardWidget"
    THEN MAX_BRIDGE_ATTEMPTS_FAST + MAX_BRIDGE_ATTEMPTS_SLOW
    ELSE MAX_BRIDGE_ATTEMPTS

\* Variant of RetryDelay: the comparison with the fast budget is `<=`, so the
\* slow phase starts one tick late.
RetryDelaySlowLate(w, a) ==
    IF w = "BookingCardWidget"
    THEN IF a <= MAX_BRIDGE_ATTEMPTS_FAST THEN BRIDGE_POLL_INTERVAL_FAST
         ELSE IF a < MAX_BRIDGE_ATTEMPTS_FAST + MAX_BRIDGE_ATTEMPTS_SLOW
              THEN BRIDGE_POLL_INTERVAL_SLOW
              ELSE 0
    ELSE IF a < MAX_BRIDGE_ATTEMPTS THEN BRIDGE_POLL_INTERVAL_MS ELSE 0

\* The delay of the retry timer set after the a-th failed tick, 0 when the
\* budget is used up and no timer is set.
RetryDelay(w, a) ==
    IF w = "BookingCardWidget"
    THEN IF a < MAX_BRIDGE_ATTEMPTS_FAST THEN BRIDGE_POLL_INTERVAL_FAST
         ELSE IF a < MAX_BRIDGE_ATTEMPTS_FAST + MAX_BRIDGE_ATTEMPTS_SLOW
              THEN BRIDGE_POLL_INTERVAL_SLOW
              ELSE 0
    ELSE IF a < MAX_BRIDGE_ATTEMPTS THEN BRIDGE_POLL_INTERVAL_MS ELSE 0

-----------------------------------------------------------------------------
(* The host environment: payload objects, bridge objects, message data and *)
(* the bootstrap channels the model draws from.                            *)

S1 == Obj(1, <<P("property_id", Str("p1")), P("rooms", Arr(<<>>))>>)

S2 == Obj(2, <<P("property_name", Str("Sunset")), P("count", Num(2))>>)

K1 == Obj(3, <<P("booking_id", Str("b3")), P("status", Str("pending"))>>)

K2 == Obj(4, <<P("status", Str("confirmed")), P("total", Num(300)),
               P("check_in", Str("2026-01-01"))>>)

U1 == Obj(5, <<P("note", Num(1))>>)

\* A bridge accessor method and what a call of it does: "return" (a value or
\* a promise fulfilled with v), "throw" (synchronously), "reject" (a promise
\* that rejects) or "hang" (a promise that never settles).
Method(does, v) == [t |-> "function", does |-> does, v |-> v]

BridgeFailing ==
    Obj(11, <<P("toolOutput", Str("{bad")),
              P("getState", Method("throw", Undefined)),
              P("getContext", Method("reject", Undefined))>>)

BridgeMethods ==
    Obj(12, <<P("toolOutput", Obj(6, <<P("structuredContent", S1)>>)),
              P("getState", Method("throw", Undefined)),
              P("getToolOutput", Method("return", K1))>>)

BridgeLate ==
    Obj(13, <<P("getInitialState", Method("return", S2)),
              P("getContext", Method("return", Obj(7, <<P("result", K2)>>)))>>)

BridgeProps ==
    Obj(14, <<P("callTool", Method("return", Undefined)),
              P("_payload", S1),
              P("widgetState", Obj(8, <<P("data", K1)>>)),
              P("output", S2)>>)

BridgeHung ==
    Obj(15, <<P("getState", Method("hang", Undefined)), P("toolOutput", S1)>>)

Bridges == {Undefined, BridgeFailing, BridgeMethods, BridgeLate, BridgeProps,
            BridgeHung}

\* A payload that reports an error, for either widget kind.
E1 == Obj(21, <<P("booking_id", Str("b9")), P("error", Str("Booking failed"))>>)

\* A search payload that lists one room.
R1 == Obj(22, <<P("rooms", Arr(<<Obj(23, <<P("id", Str("r2")),
                                           P("name", Str("Twin"))>>)>>))>>)

\* A search payload whose hotels are keyed by id instead of listed in an
\* array.
H1 == Obj(24, <<P("hotels", Obj(25, <<P("h1", Obj(26,
                    <<P("property_name", Str("Sunset"))>>))>>))>>)

MessageData == {S1, Obj(9, <<P("structuredContent", S2)>>), K1,
                Str("{\"booking_id\":\"b1\"}"), U1, Str("{bad"), Null,
                Num(7), E1, R1, H1}

\* textContent of #monobook-widget-bootstrap (null: no such element).
ScriptTexts == {Null, Str(""), Str("{bad"), Str("42"), Str("null"),
                Str("[{\"rooms\":[]}]"), Str("{\"rooms\":[]}"),
                Str("{\"payload\":{\"rooms\":[]}}"),
                Str("{\"payload\":{\"booking_id\":\"b1\"}}")}

\* The `payload` query parameter (null: not given).
QueryParams == {Null, Str(""), Str("{bad"), Str("{\"count\":2,\"rooms\":[]}"),
                Str("{\"booking_id\":\"b1\"}")}

\* Variant of StartsWithUnderscore: no key is skipped for its name.
StartsWithUnderscoreNever(key) == FALSE

\* key.startsWith("_"), for the property names of the bridges above.
StartsWithUnderscore(key) == key \in {"_payload"}

-----------------------------------------------------------------------------
(* Bootstrap Source Reader.                                                *)

\* Variant of bootstrapPayloadFromScript: the query parameter is tried first.
bootstrapPayloadQueryFirst(w, textContent, queryPayloadText) ==
    LET fromScript == parseJson(textContent)
        queryPayload == parseJson(queryPayloadText)
        fromQuery == Extract(w, queryPayload)
    IN  IF fromQuery # Null THEN fromQuery
        ELSE Extract(w, Get(fromScript, "payload"))

bootstrapPayloadFromScript(w, textContent, queryPayloadText) ==
    LET fromScript == parseJson(textContent)
        queryPayload == parseJson(queryPayloadText)
        fromScriptPayload == Extract(w, Get(fromScript, "payload"))
    IN  IF fromScriptPayload # Null THEN fromScriptPayload
        ELSE Extract(w, queryPayload)

-----------------------------------------------------------------------------
(* loadBridgePayload: harvesting the candidates of one bridge object.      *)

Range(seq) == {seq[i] : i \in 1..Len(seq)}

\* Variant of addCandidate: an object is also dropped when an object with the
\* same properties was collected before.
addCandidateByValue(candidates, value) ==
    IF \/ value = Undefined
       \/ value \in Range(candidates)
       \/ /\ value.t = "object"
          /\ \E i \in 1..Len(candidates) :
                 candidates[i].t = "object" /\ candidates[i].fields = value.fields
    THEN candidates
    ELSE Append(candidates, value)

\* addCandidate: undefined and values already seen are dropped.  `seen` is a
\* Set: an object is seen when the same object was added (the identity is part
\* of the value), a primitive when an equal primitive was added.
addCandidate(candidates, value) ==
    IF value = Undefined \/ value \in Range(candidates)
    THEN candidates
    ELSE Append(candidates, value)

RECURSIVE addCandidates(_, _)
addCandidates(candidates, values) ==
    IF values = <<>> THEN candidates
    ELSE addCandidates(addCandidate(candidates, Head(values)), Tail(values))

\* bridgeRecord[key] for the static keys, in their order.
staticCandidates(bridge) ==
    [i \in 1..Len(BRIDGE_STATIC_KEYS) |-> Get(bridge, BRIDGE_STATIC_KEYS[i])]

\* Variant of methodCandidates: the first accessor that throws or rejects ends
\* the method loop.
methodCandidatesAbort(bridge) ==
    [i \in 1..Len(BRIDGE_METHODS) |->
        LET method == Get(bridge, BRIDGE_METHODS[i])
        IN  IF /\ method.t = "function" /\ method.does = "return"
               /\ \A j \in 1..(i - 1) :
                      Get(bridge, BRIDGE_METHODS[j]).t = "function"
                          => Get(bridge, BRIDGE_METHODS[j]).does = "return"
            THEN method.v
            ELSE Undefined]

\* What `await method.call(bridge)` contributes for each accessor, in order:
\* the value of a call that returns, nothing (undefined) for an accessor that
\* is no function, throws or rejects.
methodCandidates(bridge) ==
    [i \in 1..Len(BRIDGE_METHODS) |->
        LET method == Get(bridge, BRIDGE_METHODS[i])
        IN  IF method.t = "function" /\ method.does = "return"
            THEN method.v
            ELSE Undefined]

\* The values of the third loop over Object.entries(bridgeRecord).
RECURSIVE entryCandidates(_)
entryCandidates(fields) ==
    IF fields = <<>> THEN <<>>
    ELSE LET key == Head(fields).k
             value == Head(fields).v
         IN  IF \/ StartsWithUnderscore(key)
                \/ value.t = "function"
                \/ key \in Range(BRIDGE_STATIC_KEYS)
             THEN entryCandidates(Tail(fields))
             ELSE <<value>> \o entryCandidates(Tail(fields))

\* Variant of bridgeCandidates: the accessor results are collected before the
\* static keys.
bridgeCandidatesMethodsFirst(bridge) ==
    addCandidates(
        addCandidates(
            addCandidates(<<>>, methodCandidates(bridge)),
            staticCandidates(bridge)),
        entryCandidates(bridge.fields))

\* The candidates array at the end of the three loops.
bridgeCandidates(bridge) ==
    addCandidates(
        addCandidates(
            addCandidates(<<>>, staticCandidates(bridge)),
            methodCandidates(bridge)),
        entryCandidates(bridge.fields))

\* The value loadBridgePayload resolves to for the bridge object it captured.
loadBridgePayload(w, bridge) ==
    IF bridge = Undefined THEN Null
    ELSE LET candidates == bridgeCandidates(bridge)
         IN  FirstNonNull([i \in 1..Len(candidates) |-> Extract(w, candidates[i])])

\* loadBridgePayload tabulated over the widgets and the bridge objects the
\* host installs: the value a tick of the widget w resolves to for the bridge.
bridgePayloads ==
    [w \in Widgets |-> [bridge \in Bridges |-> loadBridgePayload(w, bridge)]]

\* The accessor BRIDGE_METHODS[i] is a function of the bridge.
IsMethod(bridge, i) == Get(bridge, BRIDGE_METHODS[i]).t = "function"

\* The call of accessor i is awaited: it did not throw synchronously.
Awaited(bridge, i) ==
    IsMethod(bridge, i) /\ Get(bridge, BRIDGE_METHODS[i]).does # "throw"

\* The first accessor from index i on whose call suspends loadBridgePayload,
\* 0 when the method loop runs to its end without suspending.
NextAwait(bridge, i) ==
    IF bridge # Undefined /\ \E j \in i..Len(BRIDGE_METHODS) : Awaited(bridge, j)
    THEN CHOOSE j \in i..Len(BRIDGE_METHODS) :
             /\ Awaited(bridge, j)
             /\ \A k \in i..(j - 1) : ~Awaited(bridge, k)
    ELSE 0

\* The accessors called when the method loop runs from index i to its next
\* suspension (or to its end).
Called(bridge, i) ==
    IF bridge = Undefined THEN {}
    ELSE LET j == NextAwait(bridge, i)
             last == IF j = 0 THEN Len(BRIDGE_METHODS) ELSE j
         IN  {k \in i..last : IsMethod(bridge, k)}

-----------------------------------------------------------------------------
(* The widget: useState initialisers, the polling effect, its cleanup.     *)

\* Variant of initialLoading: the widget always starts in the loading state.
initialLoadingAlways(initialPayload) == TRUE

\* `useState<boolean>(() => !initialPayload)`.
initialLoading(initialPayload) == initialPayload = Null

\* The state after the first render: the useState initialisers have run, the
\* effect has not. The closure variables hold the values the effect body
\* gives them when it creates them.
Init ==
    /\ widget \in Widgets
    /\ mounted = TRUE
    /\ \E textContent \in ScriptTexts, queryPayloadText \in QueryParams :
          LET initialPayload ==
                  bootstrapPayloadFromScript(widget, textContent, queryPayloadText)
          IN  /\ payload = initialPayload
              /\ loading = initialLoading(initialPayload)
    /\ effect = "none"
    /\ effectDeps = Null
    /\ cancelled = FALSE
    /\ attempts = 0
    /\ timeoutId = 0
    /\ timers = {}
    /\ listener = FALSE
    /\ windowOpenai \in Bridges
    /\ tickBridge = Undefined
    /\ pc = 0
    /\ polls = 0
    /\ completed = 0
    /\ lateCalls = {}
    /\ input = Null
    /\ input2 = Null
    /\ outSearch = Null
    /\ outBooking = Null
    /\ outCoerce = Null
    /\ outCandidates = <<>>
    /\ sniffSearch = FALSE
    /\ sniffBooking = FALSE
    /\ phase = "widget"
    /\ selectedRoomId = Null
    /\ picked = <<>>
    /\ awaiting = {}
    /\ dispatched = <<>>
    /\ posted = <<>>
    /\ parentThrows = FALSE
    /\ heap = <<>>
    /\ walkSearch = FALSE
    /\ stack = <<>>
    /\ returned = Null

\* `if (cancelled) return;` at the top of pollBridge.
cancelledBeforeLoad == cancelled

\* Variant of cancelledAfterLoad: the check after the await is missing.
cancelledAfterLoadUnchecked == FALSE

\* `if (cancelled) return;` after `await loadBridgePayload()`.
cancelledAfterLoad == cancelled

\* Variant of cancelledOnMessage: onMessage also returns once loading ended.
cancelledOnMessageOrDone == cancelled \/ ~loading

\* `if (cancelled) return;` at the top of onMessage.
cancelledOnMessage == cancelled

\* Variant of retryScheduled: `attempts <= MAX...`, off by one.
retryScheduledOffByOne(w, a) == a <= MaxAttempts(w)

\* `attempts < MAX...`: a retry timer is set after the a-th failed tick.
retryScheduled(w, a) == RetryDelay(w, a) # 0

\* Variant of clearTimeout: the cleanup leaves the timer pending.
clearTimeoutSkipped(pending, id) == pending

\* clearTimeout(timeoutId) in the effect cleanup.
clearTimeout(pending, id) == {tm \in pending : tm.id # id}

\* Variant of removeEventListener: the cleanup leaves the listener attached.
removeEventListenerSkipped(attached) == attached

\* window.removeEventListener("message", onMessage) in the effect cleanup.
removeEventListener(attached) == FALSE

\* Variant of pollBridgeSettle: a match sets the payload but loading is not
\* ended.
pollBridgeSettleKeepsLoading(extracted, pending) ==
    IF extracted # Null
    THEN /\ payload' = extracted
         /\ timers' = pending
         /\ UNCHANGED <<loading, attempts, timeoutId>>
    ELSE /\ attempts' = attempts + 1
         /\ UNCHANGED payload
         /\ IF retryScheduled(widget, attempts + 1)
            THEN /\ timeoutId' = attempts + 1
                 /\ timers' = pending \cup
                       {[id |-> attempts + 1, ms |-> RetryDelay(widget, attempts + 1)]}
                 /\ UNCHANGED loading
            ELSE /\ loading' = FALSE
                 /\ timers' = pending
                 /\ UNCHANGED timeoutId

\* Variant of pollBridgeSettle: the first failed tick ends the attempt.
pollBridgeSettleGivesUp(extracted, pending) ==
    IF extracted # Null
    THEN /\ payload' = extracted
         /\ loading' = FALSE
         /\ timers' = pending
         /\ UNCHANGED <<attempts, timeoutId>>
    ELSE /\ attempts' = attempts + 1
         /\ loading' = FALSE
         /\ timers' = pending
         /\ UNCHANGED <<payload, timeoutId>>

\* Variant of pollBridgeSettle: a failed tick that sets a retry timer keeps
\* the timers that were pending.
pollBridgeSettleTwoChains(extracted, pending) ==
    IF extracted # Null
    THEN /\ payload' = extracted
         /\ loading' = FALSE
         /\ timers' = pending
         /\ UNCHANGED <<attempts, timeoutId>>
    ELSE /\ attempts' = attempts + 1
         /\ UNCHANGED payload
         /\ IF retryScheduled(widget, attempts + 1)
            THEN /\ timeoutId' = attempts + 1
                 /\ timers' = pending \cup
                       {[id |-> attempts + 1, ms |-> RetryDelay(widget, attempts + 1)],
                        [id |-> 0, ms |-> RetryDelay(widget, attempts + 1)]}
                 /\ UNCHANGED loading
            ELSE /\ loading' = FALSE
                 /\ timers' = pending
                 /\ UNCHANGED timeoutId

\* Variant of pollBridgeSettle: the last failed tick sets no timer and leaves
\* loading as it is.
pollBridgeSettleStaysLoading(extracted, pending) ==
    IF extracted # Null
    THEN /\ payload' = extracted
         /\ loading' = FALSE
         /\ timers' = pending
         /\ UNCHANGED <<attempts, timeoutId>>
    ELSE /\ attempts' = attempts + 1
         /\ UNCHANGED <<payload, loading>>
         /\ IF retryScheduled(widget, attempts + 1)
            THEN /\ timeoutId' = attempts + 1
                 /\ timers' = pending \cup
                       {[id |-> attempts + 1, ms |-> RetryDelay(widget, attempts + 1)]}
            ELSE /\ timers' = pending
                 /\ UNCHANGED timeoutId

\* pollBridge after `await loadBridgePayload()` gave `extracted` and the
\* cancelled check passed; `pending` is the timer queue at that moment.
pollBridgeSettle(extracted, pending) ==
    IF extracted # Null
    THEN /\ payload' = extracted
         /\ loading' = FALSE
         /\ timers' = pending
         /\ UNCHANGED <<attempts, timeoutId>>
    ELSE /\ attempts' = attempts + 1
         /\ UNCHANGED payload
         /\ IF retryScheduled(widget, attempts + 1)
            THEN /\ timeoutId' = attempts + 1
                 /\ timers' = pending \cup
                       {[id |-> attempts + 1, ms |-> RetryDelay(widget, attempts + 1)]}
                 /\ UNCHANGED loading
            ELSE /\ loading' = FALSE
                 /\ timers' = pending
                 /\ UNCHANGED timeoutId

\* Variant of pollBridgeStart: a tick that suspends on an accessor sets a
\* retry timer before it waits.
pollBridgeStartWatchdog(pending) ==
    /\ polls' = polls + 1
    /\ UNCHANGED lateCalls
    /\ IF NextAwait(windowOpenai, 1) = 0
       THEN /\ pc' = 0
            /\ tickBridge' = Undefined
            /\ completed' = completed + 1
            /\ pollBridgeSettle(bridgePayloads[widget][windowOpenai], pending)
       ELSE /\ pc' = NextAwait(windowOpenai, 1)
            /\ tickBridge' = windowOpenai
            /\ timeoutId' = attempts + 1
            /\ timers' = pending \cup
                   {[id |-> attempts + 1, ms |-> RetryDelay(widget, attempts)]}
            /\ UNCHANGED <<completed, payload, loading, attempts>>

\* pollBridge from its call to its first suspension on a bridge accessor, or
\* to its end when loadBridgePayload does not suspend on any accessor.
pollBridgeStart(pending) ==
    /\ polls' = polls + 1
    /\ UNCHANGED lateCalls
    /\ IF NextAwait(windowOpenai, 1) = 0
       THEN /\ pc' = 0
            /\ tickBridge' = Undefined
            /\ completed' = completed + 1
            /\ pollBridgeSettle(bridgePayloads[widget][windowOpenai], pending)
       ELSE /\ pc' = NextAwait(windowOpenai, 1)
            /\ tickBridge' = windowOpenai
            /\ timers' = pending
            /\ UNCHANGED <<completed, payload, loading, attempts, timeoutId>>

\* Variant of effectReturnsEarly: the effect always goes on to poll.
effectNeverReturnsEarly(current) == FALSE

\* `if (payload) { setLoading(false); return; }` at the head of the effect.
effectReturnsEarly(current) == current # Null

\* React runs the effect: after the first render, and again after a render in
\* which payload differs from the value the last effect run saw. The cleanup
\* of the previous run comes first. setPayload and setLoading, called from a
\* timer, promise or message callback of a createRoot tree, only queue the
\* render; the effect and its cleanup run in a later task, so other callbacks
\* (a second message, a timer, a settling accessor) can run in between and
\* still see cancelled = false and the listener attached.
RunEffect ==
    /\ mounted
    /\ effect = "none" \/ payload # effectDeps
    /\ effectDeps' = payload
    /\ UNCHANGED <<widget, mounted, windowOpenai, extractVars, selectVars, walkVars>>
    /\ IF effectReturnsEarly(payload)
       THEN /\ effect' = "early"
            /\ loading' = FALSE
            /\ IF effect = "poll"
               THEN /\ cancelled' = TRUE
                    /\ timers' = clearTimeout(timers, timeoutId)
                    /\ listener' = removeEventListener(listener)
               ELSE UNCHANGED <<cancelled, timers, listener>>
            /\ UNCHANGED <<payload, attempts, timeoutId, tickBridge, pc, polls,
                           completed, lateCalls>>
       ELSE /\ effect' = "poll"
            /\ cancelled' = FALSE
            /\ listener' = TRUE
            /\ pollBridgeStart(timers)

\* A retry timer fires and calls pollBridge.
TimerFires ==
    /\ \E tm \in timers :
          IF cancelledBeforeLoad
          THEN /\ timers' = timers \ {tm}
               /\ UNCHANGED <<payload, loading, attempts, timeoutId, tickBridge,
                              pc, polls, completed, lateCalls>>
          ELSE pollBridgeStart(timers \ {tm})
    /\ UNCHANGED <<widget, mounted, effect, effectDeps, cancelled, listener,
                   windowOpenai, extractVars, selectVars, walkVars>>

\* The awaited call of accessor pc settles (fulfils or rejects); the method
\* loop goes on to its next suspension or loadBridgePayload returns to
\* pollBridge.
AccessorSettles ==
    /\ pc # 0
    /\ Get(tickBridge, BRIDGE_METHODS[pc]).does # "hang"
    /\ lateCalls' = IF cancelled
                    THEN lateCalls \cup Called(tickBridge, pc + 1)
                    ELSE lateCalls
    /\ IF NextAwait(tickBridge, pc + 1) # 0
       THEN /\ pc' = NextAwait(tickBridge, pc + 1)
            /\ UNCHANGED <<tickBridge, completed, payload, loading, attempts,
                           timeoutId, timers>>
       ELSE /\ pc' = 0
            /\ tickBridge' = Undefined
            /\ completed' = completed + 1
            /\ IF cancelledAfterLoad
               THEN UNCHANGED <<payload, loading, attempts, timeoutId, timers>>
               ELSE pollBridgeSettle(bridgePayloads[widget][tickBridge], timers)
    /\ UNCHANGED <<widget, mounted, effect, effectDeps, cancelled, listener,
                   windowOpenai, polls, extractVars, selectVars, walkVars>>

\* Variant of onMessage: loading is ended before the extracted value is
\* looked at.
onMessageEndsLoading(data) ==
    /\ IF listener /\ ~cancelledOnMessage
       THEN /\ loading' = FALSE
            /\ payload' = IF Extract(widget, data) # Null
                           THEN Extract(widget, data) ELSE payload
       ELSE UNCHANGED <<payload, loading>>
    /\ UNCHANGED <<widget, mounted, effect, effectDeps, cancelled, attempts,
                   timeoutId, timers, listener, windowOpenai, tickBridge, pc,
                   polls, completed, lateCalls, extractVars, selectVars, walkVars>>

\* A message event with event.data = data is dispatched on window; onMessage
\* runs if it is attached.
onMessage(data) ==
    /\ IF listener /\ ~cancelledOnMessage /\ Extract(widget, data) # Null
       THEN /\ payload' = Extract(widget, data)
            /\ loading' = FALSE
       ELSE UNCHANGED <<payload, loading>>
    /\ UNCHANGED <<widget, mounted, effect, effectDeps, cancelled, attempts,
                   timeoutId, timers, listener, windowOpenai, tickBridge, pc,
                   polls, completed, lateCalls, extractVars, selectVars, walkVars>>

\* The host or another frame posts a message.
Message == \E data \in MessageData : onMessage(data)

\* The component is removed; React runs the cleanup of the effect in place.
Unmount ==
    /\ mounted
    /\ mounted' = FALSE
    /\ IF effect = "poll"
       THEN /\ cancelled' = TRUE
            /\ timers' = clearTimeout(timers, timeoutId)
            /\ listener' = removeEventListener(listener)
       ELSE UNCHANGED <<cancelled, timers, listener>>
    /\ UNCHANGED <<widget, payload, loading, effect, effectDeps, attempts,
                   timeoutId, windowOpenai, tickBridge, pc, polls, completed,
                   lateCalls, extractVars, selectVars, walkVars>>

\* The host installs, replaces or removes window.openai.
HostSetsBridge ==
    /\ \E bridge \in Bridges :
          /\ bridge # windowOpenai
          /\ windowOpenai' = bridge
    /\ UNCHANGED <<widget, mounted, payload, loading, effect, effectDeps,
                   cancelled, attempts, timeoutId, timers, listener, tickBridge,
                   pc, polls, completed, lateCalls, extractVars, selectVars, walkVars>>

Next ==
    \/ RunEffect
    \/ TimerFires
    \/ AccessorSettles
    \/ Message
    \/ Unmount
    \/ HostSetsBridge

Spec == Init /\ [][Next]_vars

\* The lifecycle under the scheduling the host gives it: React runs a due
\* effect, a pending timer fires, and an awaited accessor call that can
\* settle does settle.  Messages, the host replacing the bridge and the
\* unmount are not forced.
FairSpec ==
    /\ Spec
    /\ WF_vars(RunEffect)
    /\ WF_vars(TimerFires)
    /\ WF_vars(AccessorSettles)

-----------------------------------------------------------------------------
(* ExtractSpec: the extractors applied to a bounded universe of candidates. *)

\* Values that occur below a wrapper, as structuredContent or on their own.
Leaves ==
    {S1, S2, K1, K2, U1, Null, Undefined, Num(7), Num(0), Bool(TRUE),
     Bool(FALSE), Arr(<<>>), Arr(<<S1>>),
     Str(""), Str("{bad"), Str("42"), Str("null"), Str("true"), Str("\"abc\""),
     Str("{\"rooms\":[]}"), Str("{\"booking_id\":\"b1\"}"), Str("{\"note\":1}"),
     Str("[{\"rooms\":[]}]"),
     Str("{\"structuredContent\":{\"rooms\":[]}}"),
     Str("{\"structuredContent\":{\"note\":1}}"),
     Obj(30, <<P("status", Str("confirmed")), P("total", Num(300))>>),
     Obj(31, <<P("a", Obj(32, <<P("b", S1)>>))>>),
     Obj(33, <<P("x", U1), P("y", K1), P("z", S2)>>)}

\* The wrapper keys used to build candidates, one early and two late ones of
\* WRAPPER_KEYS, and a key that is no wrapper.
EnvelopeKeys == {"result", "data", "value", "payload"}

\* The wrapper keys used to build chains of three wrappers.
ChainKeys == {"result", "toolOutput", "value"}

\* A content array with one skipped entry and one text block.
ContentOf(text) ==
    Arr(<<Num(1), Obj(0, <<P("type", Str("text"))>>),
          Obj(0, <<P("type", Str("text")), P("text", Str(text))>>)>>)

\* A content array with two text blocks between entries that are skipped: a
\* number, a block whose text is an object, a string.
ContentOfTwo(text1, text2) ==
    Arr(<<Num(1), Obj(0, <<P("type", Str("text")), P("text", S1)>>),
          Obj(0, <<P("type", Str("text")), P("text", Str(text1))>>),
          Str("{\"rooms\":[]}"),
          Obj(0, <<P("type", Str("text")), P("text", Str(text2))>>)>>)

ContentTexts == {"{bad", "42", "{\"rooms\":[]}", "{\"booking_id\":\"b1\"}",
                 "{\"note\":1}", "{\"structuredContent\":{\"note\":1}}"}

\* The keys the sniffers look for, and one they do not.
SnifferKeys == <<"rooms", "hotels", "count", "property_name", "error",
                 "booking_id", "status", "total", "check_in", "note">>

\* The record that has the keys ks of SnifferKeys, each with the value v.
KeyedRecord(ks, v) ==
    LET present == SelectSeq(SnifferKeys, LAMBDA k : k \in ks)
    IN  Obj(70, [i \in 1..Len(present) |-> P(present[i], v)])

SnifferInputs ==
    {KeyedRecord(ks, v) :
         ks \in SUBSET {SnifferKeys[i] : i \in 1..Len(SnifferKeys)},
         v \in {Undefined, Num(1)}}

\* The wrapper keys as a set.
WrapperKeySet == {WRAPPER_KEYS[i] : i \in 1..Len(WRAPPER_KEYS)}

\* Values in which a payload sits below further wrapper keys or is found
\* only as a nested value, and one that holds no payload.
DeepValues ==
    {Obj(74, <<P("value", Obj(75, <<P("tool_output", S2)>>))>>),
     Obj(74, <<P("value", Obj(75, <<P("tool_output", K1)>>))>>),
     Obj(76, <<P("x", U1), P("y", K1), P("z", S2)>>),
     U1}

ExtractInputs ==
    Leaves
    \cup SnifferInputs
    \cup {Obj(40, <<P(k, l)>>) : k \in EnvelopeKeys, l \in Leaves}
    \cup {Obj(41, <<P("result", Obj(42, <<P(k, l)>>))>>) :
              k \in EnvelopeKeys, l \in {S1, K1, U1, Str("{\"rooms\":[]}")}}
    \cup {Obj(43, <<P("structuredContent", l)>>) : l \in Leaves}
    \cup {Obj(44, <<P("rooms", Arr(<<>>)), P("booking_id", Str("b0")),
                    P(k, m), P("structuredContent", l)>>) :
              k \in EnvelopeKeys, m \in {S2, K2}, l \in {S1, K1, U1, Str("{bad")}}
    \cup {Obj(45, <<P("content", ContentOf(text))>>) : text \in ContentTexts}
    \cup {Obj(46, <<P("content", ContentOf(text)), P("structuredContent", l)>>) :
              text \in ContentTexts, l \in {S1, K1, U1}}
    \cup {Obj(47, <<P("count", Num(1)), P("data", l)>>) : l \in Leaves}
    \cup {Obj(48, <<P("content", ContentOfTwo(text1, text2))>>) :
              text1 \in ContentTexts \cup {"", "{\"count\":2,\"rooms\":[]}"},
              text2 \in ContentTexts \cup {"", "{\"count\":2,\"rooms\":[]}"}}
    \cup {Obj(60, <<P(k1, Obj(61, <<P(k2, Obj(62, <<P(k3, l)>>))>>))>>) :
              k1 \in ChainKeys, k2 \in ChainKeys, k3 \in ChainKeys,
              l \in {S1, K1, K2, U1, Str("{\"rooms\":[]}")}}
    \cup {Obj(63, <<P("result", Obj(64, <<P("structuredContent", l),
                                          P("rooms", Arr(<<>>)),
                                          P("booking_id", Str("b0"))>>))>>) :
              l \in {U1, Num(7), Str("{bad"), Str("{\"note\":1}")}}
    \cup {Obj(49, <<P("count", Num(1)), P("booking_id", Str("b0")),
                    P("content", ContentOf(text))>>) : text \in ContentTexts}
    \cup {Obj(77, <<P("structuredContent", l), P("payload", m)>>) :
              l \in {S1, U1, Str("{\"note\":1}")},
              m \in {K1, K2, S1, Str("{\"booking_id\":\"b1\"}")}}
    \cup UNION {{Obj(73, <<P(k1, u), P(k2, v)>>) :
                     k2 \in WrapperKeySet \ {k1}, u \in {S1, K2}, v \in DeepValues} :
                 k1 \in WrapperKeySet}

\* Bridge objects whose three harvesting groups hold payloads of their own.
\* The properties are written in the reverse of the harvesting order.
HarvestValues == {S1, S2, K1, K2, U1}

\* An object with the properties of S1 that is not S1.
S1Twin == Obj(20, S1.fields)

\* Values a bridge may hold more than once.
RepeatedValues == {S1, S1Twin, Str("{\"rooms\":[]}"), U1}

\* What a call of an accessor does within a tick that completes.
AccessorOutcomes == {"return", "throw", "reject"}

HarvestBridges ==
    {Obj(50, <<P(other, c), P("getToolOutput", Method("return", b)),
               P(static, a)>>) :
         other \in {"widgetState", "_payload"}, static \in {"toolOutput", "state"},
         a \in HarvestValues, b \in HarvestValues, c \in HarvestValues}
    \cup {Obj(51, <<P("getToolOutput", Method("return", d)),
                    P("getInitialState", Method("return", c)),
                    P("value", b), P("output", a)>>) :
              a \in {S1, S2, U1}, b \in {S1, S2, U1},
              c \in {S1, S2, U1}, d \in {S1, S2, U1}}
    \cup {Obj(52, <<P("toolOutput", a), P("output", b),
                    P("getState", Method("return", c)), P("widgetState", d)>>) :
              a \in RepeatedValues, b \in RepeatedValues,
              c \in RepeatedValues, d \in RepeatedValues}
    \cup {Obj(53, <<P("widgetState", d),
                    P("getToolOutput", Method(does3, c)),
                    P("getState", Method(does2, U1)),
                    P("getInitialState", Method(does1, b)),
                    P("toolOutput", a)>>) :
              does1 \in AccessorOutcomes, does2 \in AccessorOutcomes,
              does3 \in AccessorOutcomes, a \in {U1, S2},
              b \in {S1, K1, U1}, c \in {S1, K1, U1}, d \in {S1, K1, U1}}
    \cup {Undefined, BridgeFailing, BridgeMethods, BridgeLate, BridgeProps}

ExtractInit ==
    /\ \/ phase = "in" /\ input \in ExtractInputs /\ input2 = Null
       \/ phase = "bridge" /\ input \in HarvestBridges /\ input2 = Null
       \/ phase = "boot" /\ input \in ScriptTexts /\ input2 \in QueryParams
    /\ outSearch = Null
    /\ outBooking = Null
    /\ outCoerce = Null
    /\ outCandidates = <<>>
    /\ sniffSearch = FALSE
    /\ sniffBooking = FALSE
    /\ widget = "SearchRoomsWidgetV2"
    /\ mounted = FALSE
    /\ payload = Null
    /\ loading = FALSE
    /\ effect = "none"
    /\ effectDeps = Null
    /\ cancelled = FALSE
    /\ attempts = 0
    /\ timeoutId = 0
    /\ timers = {}
    /\ listener = FALSE
    /\ windowOpenai = Undefined
    /\ tickBridge = Undefined
    /\ pc = 0
    /\ polls = 0
    /\ completed = 0
    /\ lateCalls = {}
    /\ selectedRoomId = Null
    /\ picked = <<>>
    /\ awaiting = {}
    /\ dispatched = <<>>
    /\ posted = <<>>
    /\ parentThrows = FALSE
    /\ heap = <<>>
    /\ walkSearch = FALSE
    /\ stack = <<>>
    /\ returned = Null

\* Coercion, the sniffers (on a coercible candidate) and both extractors are
\* applied to the candidate.
RunExtractors ==
    /\ phase = "in"
    /\ phase' = "out"
    /\ outSearch' = extractStructuredPayload(input)
    /\ outBooking' = extractBookingPayload(input)
    /\ outCoerce' = coerceToRecord(input)
    /\ sniffSearch' = (coerceToRecord(input) # Null
                          /\ hasSearchRoomsData(coerceToRecord(input)))
    /\ sniffBooking' = (coerceToRecord(input) # Null
                           /\ hasBookingData(coerceToRecord(input)))
    /\ UNCHANGED <<input, input2, outCandidates, widgetVars, selectVars, walkVars>>

\* loadBridgePayload of either widget kind harvests the bridge object.
RunLoadBridge ==
    /\ phase = "bridge"
    /\ phase' = "loaded"
    /\ outSearch' = loadBridgePayload("SearchRoomsWidgetV2", input)
    /\ outBooking' = loadBridgePayload("BookingCardWidget", input)
    /\ outCandidates' = IF input = Undefined THEN <<>> ELSE bridgeCandidates(input)
    /\ UNCHANGED <<input, input2, outCoerce, sniffSearch, sniffBooking,
                   widgetVars, selectVars, walkVars>>

\* bootstrapPayloadFromScript of either widget kind reads the script text and
\* the query parameter.
RunBootstrap ==
    /\ phase = "boot"
    /\ phase' = "booted"
    /\ outSearch' = bootstrapPayloadFromScript("SearchRoomsWidgetV2", input, input2)
    /\ outBooking' = bootstrapPayloadFromScript("BookingCardWidget", input, input2)
    /\ UNCHANGED <<input, input2, outCoerce, outCandidates, sniffSearch,
                   sniffBooking,
                   widgetVars, selectVars, walkVars>>

ExtractNext ==
    \/ RunExtractors
    \/ RunLoadBridge
    \/ RunBootstrap

ExtractSpec == ExtractInit /\ [][ExtractNext]_vars

-----------------------------------------------------------------------------
(* Claims about the widget life cycle (Spec).                              *)

\* The value the poll tick that completes in this step hands to pollBridge:
\* an unsuspended tick reads window.openai, a resumed one its captured bridge.
TickResult == loadBridgePayload(widget, IF pc = 0 THEN windowOpenai ELSE tickBridge)

\* C1: first resolution wins: once payload is non-null no later step, message
\* or poll tick, changes it.
C1_FirstResolutionWins == [][payload # Null => payload' = payload]_vars

\* C2: a message that resolves the widget sets payload and ends loading in
\* that step, and when the retry timer that was still pending then fires
\* (a new poll starts while payload is already set) neither payload nor
\* loading changes.
C2_PendingTimerInert ==
    [][/\ (payload = Null /\ payload' # Null /\ polls' = polls /\ completed' = completed)
            => loading' = FALSE
       /\ (payload # Null /\ timers # {} /\ polls' = polls + 1)
            => (payload' = payload /\ loading' = loading)]_vars

\* C3: after unmount nothing changes payload, loading, the attempt counter or
\* the timer queue, whatever settles or arrives.
C3_UnmountSafety ==
    [][~mounted => UNCHANGED <<payload, loading, attempts, timeoutId, timers>>]_vars

\* C3 witness: unmounted during a tick on a bridge whose later accessor was
\* still called and whose valid payload was discarded: the tick has
\* completed, it neither resolved the widget nor counted as a failure.
C3_Witness ==
    /\ ~mounted
    /\ pc = 0
    /\ lateCalls # {}
    /\ completed = attempts + 1
    /\ payload = Null
    /\ loading

\* C4: the bridge is polled at most the budget; when the attempt counter
\* reaches the budget exactly that many polls were made, loading has ended
\* and no tick is pending or in flight; before that an unresolved mounted
\* widget is still loading.
C4_ExhaustionExact ==
    /\ polls <= MaxAttempts(widget)
    /\ attempts <= MaxAttempts(widget)
    /\ attempts = MaxAttempts(widget) =>
           (polls = MaxAttempts(widget) /\ ~loading /\ timers = {} /\ pc = 0)
    /\ (payload = Null /\ attempts < MaxAttempts(widget)) => loading

\* C4 witness: the booking widget exhausted after 140 failed ticks.
C4_Witness ==
    /\ widget = "BookingCardWidget"
    /\ attempts = 140
    /\ polls = 140
    /\ payload = Null
    /\ ~loading

\* C5: a tick that completes uncancelled with a valid candidate resolves the
\* widget with it, is tick N+1 after N < budget failed ticks and sets no
\* timer; a tick without one (bridge absent included) counts as exactly one
\* failure; and while unresolved below the budget the polling chain is alive.
C5_LateBridgeResolves ==
    [][/\ (completed' = completed + 1 /\ ~cancelled /\ TickResult # Null) =>
             /\ payload' = TickResult
             /\ loading' = FALSE
             /\ attempts' = attempts
             /\ attempts < MaxAttempts(widget)
             /\ completed' = attempts + 1
             /\ timers' \subseteq timers
       /\ (completed' = completed + 1 /\ ~cancelled /\ TickResult = Null) =>
             /\ attempts' = attempts + 1
             /\ payload' = payload
       /\ (mounted /\ effect = "poll" /\ payload = Null
             /\ attempts < MaxAttempts(widget)) => (timers # {} \/ pc # 0)]_vars

\* C5 witness: resolved by the very last tick of the budget.
C5_Witness ==
    /\ payload # Null
    /\ attempts = MaxAttempts(widget) - 1
    /\ completed = MaxAttempts(widget)
    /\ ~loading

\* C6: after unmount no retry timer is pending and no listener is attached.
C6_UnmountCleanup == ~mounted => (timers = {} /\ ~listener)

\* C6 witness: unmounted while a retry timer was pending (no tick in flight,
\* not resolved, budget not used up).
C6_Witness ==
    /\ ~mounted
    /\ effect = "poll"
    /\ timeoutId # 0
    /\ pc = 0
    /\ completed = polls
    /\ payload = Null
    /\ attempts < MaxAttempts(widget)

\* C7 as stated: once the mount effect has run, a mounted widget always has
\* its message listener attached.
C7_ListenerWhileMounted == (mounted /\ effect # "none") => listener

\* C7: the listener is attached exactly while the widget is mounted and the
\* effect that ran last is the polling one (Polling, Exhausted, and resolved
\* with the effect not yet re-run); Idle after a bootstrap hit and Resolved
\* after the effect re-ran have none.
C7_ListenerWhilePollingEffect == listener <=> (mounted /\ effect = "poll")

\* C7 witness: resolved after polling, effect re-run, listener gone.
C7_Witness ==
    /\ mounted
    /\ effect = "early"
    /\ polls > 0
    /\ payload # Null
    /\ ~listener

-----------------------------------------------------------------------------
(* Claims about the extractors (ExtractSpec).                              *)

RecognizedKeys == {"rooms", "hotels", "count", "property_name", "error",
                   "booking_id", "status", "total", "check_in"}

\* Every property name that occurs in the value at any depth, JSON text
\* included.
RECURSIVE KeysIn(_)
KeysIn(value) ==
    CASE value.t = "object" ->
             {value.fields[i].k : i \in 1..Len(value.fields)}
             \cup UNION {KeysIn(value.fields[i].v) : i \in 1..Len(value.fields)}
      [] value.t = "array" ->
             UNION {KeysIn(value.items[i]) : i \in 1..Len(value.items)}
      [] value.t = "string" -> KeysIn(parseJson(value))
      [] OTHER -> {}

\* C9: a candidate in which no recognized key occurs anywhere yields nothing
\* from either extractor.
C9_NoRecognizedKeyNothing ==
    (phase = "out" /\ KeysIn(input) \cap RecognizedKeys = {})
        => (outSearch = Null /\ outBooking = Null)

\* The structuredContent record of the candidate, null when the candidate or
\* its structuredContent is not coercible.
StructuredOf(value) ==
    IF coerceToRecord(value) = Null THEN Null
    ELSE coerceToRecord(Get(coerceToRecord(value), "structuredContent"))

\* C10: a structuredContent that passes the sniffer is returned as it is,
\* whatever else the outer record carries.
C10_StructuredContentFirst ==
    phase = "out" =>
        /\ (StructuredOf(input) # Null /\ hasSearchRoomsData(StructuredOf(input)))
               => outSearch = StructuredOf(input)
        /\ (StructuredOf(input) # Null /\ hasBookingData(StructuredOf(input)))
               => outBooking = StructuredOf(input)

\* C10 witness: the outer record carries recognized keys and a matching
\* wrapper key, and structuredContent still wins.
C10_Witness ==
    /\ phase = "out"
    /\ HasOwn(input, "rooms")
    /\ Get(input, "result") = S2
    /\ Get(input, "structuredContent") = S1
    /\ outSearch = S1

-----------------------------------------------------------------------------
(* Wrapper chains.                                                         *)

\* The sniffer of the extractor that fills outSearch (search = TRUE) or
\* outBooking.
Sniffs(search, record) ==
    IF search THEN hasSearchRoomsData(record) ELSE hasBookingData(record)

\* The wrapper keys that are own properties of record.
WrappersOf(record) ==
    {i \in 1..Len(WRAPPER_KEYS) : HasOwn(record, WRAPPER_KEYS[i])}

\* value heads a chain of wrapper keys, one per record, on which no record
\* has a structuredContent the sniffer accepts and none has a content array.
RECURSIVE PlainChain(_, _)
PlainChain(search, value) ==
    LET record == coerceToRecord(value)
        structured == coerceToRecord(Get(record, "structuredContent"))
    IN  \/ record = Null
        \/ /\ ~(structured # Null /\ Sniffs(search, structured))
           /\ Get(record, "content").t # "array"
           /\ Cardinality(WrappersOf(record)) <= 1
           /\ \A i \in WrappersOf(record) :
                  PlainChain(search, Get(record, WRAPPER_KEYS[i]))

\* The records the sniffer accepts at the end of the wrapper chain that
\* starts at value: the innermost record of the chain, when it is accepted.
RECURSIVE ChainEnds(_, _)
ChainEnds(search, value) ==
    LET record == coerceToRecord(value)
    IN  IF record = Null THEN {}
        ELSE IF WrappersOf(record) # {}
        THEN UNION {ChainEnds(search, Get(record, WRAPPER_KEYS[i])) :
                        i \in WrappersOf(record)}
        ELSE IF Sniffs(search, record) THEN {record}
        ELSE {}

\* C11: when the candidate heads a chain of wrapper keys that ends in one
\* record the sniffer accepts, and no record on the chain has a
\* structuredContent the sniffer accepts, each extractor returns that
\* innermost record.
C11_NestedWrappers ==
    phase = "out" =>
        /\ \A e \in ChainEnds(TRUE, input) :
               (PlainChain(TRUE, input) /\ ChainEnds(TRUE, input) = {e})
                   => outSearch = e
        /\ \A e \in ChainEnds(FALSE, input) :
               (PlainChain(FALSE, input) /\ ChainEnds(FALSE, input) = {e})
                   => outBooking = e

-----------------------------------------------------------------------------
(* Content blocks.                                                         *)

\* The extractor that fills outSearch (search = TRUE) or outBooking.
Extracts(search, value) ==
    IF search THEN extractStructuredPayload(value)
    ELSE extractBookingPayload(value)

\* What the extractor finds in the text of the i-th entry of the content
\* array: nothing when the entry is no object, has no string text, or its
\* text is no valid JSON.
BlockResult(search, content, i) ==
    LET item == content.items[i]
    IN  IF item.t \notin {"object", "array"} THEN Null
        ELSE IF Get(item, "text").t # "string" THEN Null
        ELSE IF JSONparse(Get(item, "text").s) = SyntaxError THEN Null
        ELSE Extracts(search, JSONparse(Get(item, "text").s))

\* The content sweep of the candidate is reached: the candidate is a record
\* with a content array, and the structuredContent step and the wrapper
\* sweep have found nothing.
ContentReached(search, value) ==
    /\ value.t = "object"
    /\ Get(value, "content").t = "array"
    /\ IF search THEN structuredContentSearch(value) = Null
       ELSE structuredContentBooking(value) = Null
    /\ \A i \in 1..Len(WRAPPER_KEYS) :
           Extracts(search, Get(value, WRAPPER_KEYS[i])) = Null

\* The result claimed for the content sweep: that of the first entry, in
\* array order, whose text yields one.
FirstBlockIs(search, value, out) ==
    LET content == Get(value, "content")
    IN  \A i \in 1..Len(content.items) :
            (/\ BlockResult(search, content, i) # Null
             /\ \A j \in 1..(i - 1) : BlockResult(search, content, j) = Null)
                => out = BlockResult(search, content, i)

-----------------------------------------------------------------------------
(* Provenance of the result.                                               *)

\* The record a value stands for: an object or array itself, the parsed
\* value of a string of JSON that encodes one; null otherwise.
Coerced(value) ==
    IF value.t \in {"object", "array"} THEN value
    ELSE IF value.t = "string" /\ JSONparse(value.s).t \in {"object", "array"}
    THEN JSONparse(value.s)
    ELSE Null

\* The values held by a record: its own property values or its items.
Children(record) ==
    IF record.t = "array" THEN {record.items[i] : i \in 1..Len(record.items)}
    ELSE {record.fields[i].v : i \in 1..Len(record.fields)}

\* Every record a search that starts at value can obtain by coercion: the
\* record of the value and, recursively, those of the values it holds.
RECURSIVE RecordsIn(_)
RecordsIn(value) ==
    IF Coerced(value) = Null THEN {}
    ELSE {Coerced(value)} \cup UNION {RecordsIn(v) : v \in Children(Coerced(value))}

\* The values a bridge object offers: its own non-function property values
\* and what its accessor methods return.
BridgeValues(bridge) ==
    IF bridge.t # "object" THEN {}
    ELSE {bridge.fields[i].v : i \in {j \in 1..Len(bridge.fields) :
                                        bridge.fields[j].v.t # "function"}}
         \cup {bridge.fields[i].v.v : i \in {j \in 1..Len(bridge.fields) :
                    /\ bridge.fields[j].v.t = "function"
                    /\ bridge.fields[j].v.does = "return"}}

\* C14: an extractor never merges: what it returns is one of the records
\* obtained by coercion during the search (the input record, a nested value,
\* a parsed JSON string); and what a poll tick's harvest returns is the
\* extraction of one of the bridge's candidates, a record found in it.
C14_NoMerging ==
    /\ phase = "out" =>
           /\ outSearch # Null => outSearch \in RecordsIn(input)
           /\ outBooking # Null => outBooking \in RecordsIn(input)
    /\ phase = "loaded" =>
           /\ outSearch # Null =>
                  \E c \in BridgeValues(input) :
                      /\ outSearch = extractStructuredPayload(c)
                      /\ outSearch \in RecordsIn(c)
           /\ outBooking # Null =>
                  \E c \in BridgeValues(input) :
                      /\ outBooking = extractBookingPayload(c)
                      /\ outBooking \in RecordsIn(c)

\* A candidate that is not accepted itself and holds several records, one of
\* which is returned as it is.
C14_Witness ==
    /\ phase = "out"
    /\ outSearch # Null
    /\ outSearch # Coerced(input)
    /\ outBooking # Null
    /\ outBooking # outSearch
    /\ {outSearch, outBooking} \subseteq RecordsIn(input)
    /\ Cardinality(RecordsIn(input)) >= 4

\* A bridge that offers several accepted records: the harvest returns one.
C14_WitnessTick ==
    /\ phase = "loaded"
    /\ outSearch \in BridgeValues(input)
    /\ \E c \in BridgeValues(input) :
           c # outSearch /\ extractStructuredPayload(c) # Null

-----------------------------------------------------------------------------
(* Record coercion.                                                        *)

\* C15: coercion never throws and never returns a partial result: an object
\* is returned as it is; a string gives what JSON.parse gives for it, and only
\* when the parse succeeds and gives an object; an unparseable or empty
\* string, a string that encodes a JSON primitive or null, a number, a
\* boolean, null and undefined are not coercible.
C15_Coercion ==
    phase = "out" =>
        /\ outCoerce # SyntaxError
        /\ input.t \in {"object", "array"} => outCoerce = input
        /\ input.t = "string" =>
               /\ JSONparse(input.s).t = "object" => outCoerce = JSONparse(input.s)
               /\ outCoerce # Null =>
                      /\ JSONparse(input.s) # SyntaxError
                      /\ outCoerce = JSONparse(input.s)
                      /\ outCoerce.t \in {"object", "array"}
               /\ (\/ input.s = ""
                   \/ JSONparse(input.s) = SyntaxError
                   \/ JSONparse(input.s).t \in {"number", "boolean", "string", "null"})
                      => outCoerce = Null
        /\ input.t \in {"number", "boolean", "null", "undefined"}
               => outCoerce = Null

\* A string of JSON that encodes an object is coerced to the parsed object.
C15_Witness ==
    /\ phase = "out"
    /\ input.t = "string"
    /\ JSONparse(input.s).t = "object"
    /\ outCoerce = JSONparse(input.s)

\* C16: a string whose JSON text encodes an array is not coercible, and the
\* extractors return nothing for it.
C16_ArrayStringNotCoercible ==
    (phase = "out" /\ input.t = "string" /\ JSONparse(input.s).t = "array") =>
        /\ outCoerce = Null
        /\ outSearch = Null
        /\ outBooking = Null

-----------------------------------------------------------------------------
(* The schema sniffers.                                                    *)

\* The own keys of a record.
KeysOf(record) == {record.fields[i].k : i \in 1..Len(record.fields)}

\* C17: the search sniffer is true exactly when the record has at least one
\* of the own keys rooms, hotels, count, property_name, error; the booking
\* sniffer exactly when it has booking_id or all three of status, total,
\* check_in.  Only the presence of keys counts, never their values, and two of
\* status/total/check_in without the third and without booking_id are
\* rejected.
C17_Sniffers ==
    (phase = "out" /\ input.t = "object") =>
        /\ sniffSearch =
               (KeysOf(input) \cap {"rooms", "hotels", "count", "property_name",
                                     "error"} # {})
        /\ sniffBooking =
               (\/ "booking_id" \in KeysOf(input)
                \/ {"status", "total", "check_in"} \subseteq KeysOf(input))

\* A record with two of status/total/check_in and an error key, every value
\* undefined: the booking sniffer rejects it, the search sniffer accepts it.
C17_Witness ==
    /\ phase = "out"
    /\ input.t = "object"
    /\ KeysOf(input) = {"status", "check_in", "error"}
    /\ \A i \in 1..Len(input.fields) : input.fields[i].v = Undefined
    /\ ~sniffBooking
    /\ sniffSearch

-----------------------------------------------------------------------------
(* Bootstrap precedence.                                                   *)

\* What a text holds as JSON: null when there is no text, it is empty or it
\* is no valid JSON.
JsonOf(text) ==
    IF text.t # "string" THEN Null
    ELSE IF text.s = "" \/ JSONparse(text.s) = SyntaxError THEN Null
    ELSE JSONparse(text.s)

\* What the extractor finds in the payload of the script element, whose text
\* content is textContent (null: no element).
ScriptHit(search, textContent) ==
    IF JsonOf(textContent).t # "object" THEN Null
    ELSE Extracts(search, Get(JsonOf(textContent), "payload"))

\* The bootstrap result claimed for a script text and a query parameter.
BootstrapIs(search, textContent, queryText, out) ==
    IF ScriptHit(search, textContent) # Null
    THEN out = ScriptHit(search, textContent)
    ELSE out = Extracts(search, JsonOf(queryText))

\* C18: the bootstrap reader returns what the extractor finds in the script
\* element's payload when that is something, otherwise what it finds in the
\* JSON of the payload query parameter, otherwise nothing; a missing element
\* and empty, malformed or non-object script JSON fall through to the query
\* parameter without an error; when both sources hold a payload the script's
\* wins.
C18_BootstrapPrecedence ==
    phase = "booted" =>
        /\ outSearch # SyntaxError /\ outBooking # SyntaxError
        /\ BootstrapIs(TRUE, input, input2, outSearch)
        /\ BootstrapIs(FALSE, input, input2, outBooking)

\* Script and query parameter hold different search payloads: the script's is
\* the result.
C18_Witness ==
    /\ phase = "booted"
    /\ ScriptHit(TRUE, input) # Null
    /\ Extracts(TRUE, JsonOf(input2)) # Null
    /\ Extracts(TRUE, JsonOf(input2)) # ScriptHit(TRUE, input)
    /\ outSearch = ScriptHit(TRUE, input)

\* The script text is no JSON object and the query parameter holds a payload:
\* the query parameter's is the result.
C18_WitnessFallThrough ==
    /\ phase = "booted"
    /\ input \in {Null, Str(""), Str("{bad"), Str("42")}
    /\ outBooking # Null
    /\ outBooking = Extracts(FALSE, JsonOf(input2))

-----------------------------------------------------------------------------
(* Idle.                                                                   *)

\* C19: when the bootstrap sources give a payload (a payload is set and no
\* poll tick has ever started), loading is false from the initial state on,
\* the payload stays the bootstrap payload, and for the rest of the widget's
\* life no poll tick runs, the bridge is never read, no retry timer is
\* scheduled and no accessor is awaited.
C19_IdleSkipsPolling ==
    [][(polls = 0 /\ payload # Null) =>
           /\ ~loading /\ ~loading'
           /\ payload' = payload
           /\ polls' = 0
           /\ attempts' = 0
           /\ tickBridge = Undefined /\ tickBridge' = Undefined
           /\ timers = {} /\ timers' = {}
           /\ pc' = 0
           /\ effect' # "poll"]_vars

\* The effect has run and returned early on a bootstrap payload while the
\* bridge offers payloads of its own.
C19_Witness ==
    /\ mounted
    /\ effect = "early"
    /\ polls = 0
    /\ payload # Null
    /\ ~loading
    /\ windowOpenai = BridgeProps
    /\ tickBridge = Undefined
    /\ timers = {}

-----------------------------------------------------------------------------
(* Candidate order.                                                        *)

StaticOrder == <<"toolOutput", "output", "data", "result", "response",
                 "toolResult", "tool_output", "tool_result", "state", "value">>

AccessorOrder == <<"getInitialState", "getState", "getContext", "getToolOutput">>

\* The values of the bridge in the claimed collection order: the static keys,
\* what the accessor methods return, the remaining non-function own
\* properties (with or without those whose key starts with an underscore).
\* A source that is missing is undefined.
ClaimedSources(bridge, underscored) ==
    [i \in 1..Len(StaticOrder) |-> Get(bridge, StaticOrder[i])]
    \o [i \in 1..Len(AccessorOrder) |->
           LET method == Get(bridge, AccessorOrder[i])
           IN  IF method.t = "function" /\ method.does = "return" THEN method.v
               ELSE Undefined]
    \o [i \in 1..Len(SelectSeq(bridge.fields, LAMBDA f :
               /\ f.v.t # "function"
               /\ f.k \notin {StaticOrder[j] : j \in 1..Len(StaticOrder)}
               /\ underscored \/ ~StartsWithUnderscore(f.k))) |->
           SelectSeq(bridge.fields, LAMBDA f :
               /\ f.v.t # "function"
               /\ f.k \notin {StaticOrder[j] : j \in 1..Len(StaticOrder)}
               /\ underscored \/ ~StartsWithUnderscore(f.k))[i].v]

\* out is what the extractor gives for the earliest source that gives
\* something, and nothing when no source does.
EarliestIs(search, sources, out) ==
    /\ \A i \in 1..Len(sources) :
           (/\ Extracts(search, sources[i]) # Null
            /\ \A j \in 1..(i - 1) : Extracts(search, sources[j]) = Null)
               => out = Extracts(search, sources[i])
    /\ (\A i \in 1..Len(sources) : Extracts(search, sources[i]) = Null)
           => out = Null

\* C20: the harvest of a bridge collects the static keys in their order, then
\* the accessor results in their order, then the remaining enumerable
\* non-function own properties, and returns the extraction of the earliest
\* candidate that yields a payload.
C20_CandidateOrder ==
    (phase = "loaded" /\ input.t = "object") =>
        /\ EarliestIs(TRUE, ClaimedSources(input, TRUE), outSearch)
        /\ EarliestIs(FALSE, ClaimedSources(input, TRUE), outBooking)

\* C20, amended: as C20_CandidateOrder, the third group being the remaining
\* enumerable non-function own properties whose key does not start with an
\* underscore.
C20_CandidateOrderNoUnderscore ==
    (phase = "loaded" /\ input.t = "object") =>
        /\ EarliestIs(TRUE, ClaimedSources(input, FALSE), outSearch)
        /\ EarliestIs(FALSE, ClaimedSources(input, FALSE), outBooking)

\* A bridge written as: other property, accessor, static key.  The static
\* value yields nothing, the accessor result and the other property hold
\* different search payloads: the accessor result is returned.
C20_Witness ==
    /\ phase = "loaded"
    /\ input.t = "object"
    /\ input.id = 50
    /\ LET other == input.fields[1].v
           accessor == input.fields[2].v.v
           static == input.fields[3].v
       IN  /\ extractStructuredPayload(static) = Null
           /\ extractStructuredPayload(accessor) # Null
           /\ extractStructuredPayload(other) # Null
           /\ extractStructuredPayload(other) # extractStructuredPayload(accessor)
           /\ outSearch = extractStructuredPayload(accessor)

-----------------------------------------------------------------------------
(* Candidate deduplication.                                                *)

\* Two values are one reference: the same object.
SameReference(a, b) == a.t = "object" /\ a = b

\* Two values are the same to a Set: the same object, or equal primitives.
SameValueZero(a, b) == a = b

\* The positions of the sources that are kept when a source is dropped
\* exactly if it is undefined or the same (by reference, or to a Set) as an
\* earlier source.
KeptPositions(sources, byReference) ==
    {i \in 1..Len(sources) :
        /\ sources[i] # Undefined
        /\ \A j \in 1..(i - 1) :
               IF byReference THEN ~SameReference(sources[j], sources[i])
               ELSE ~SameValueZero(sources[j], sources[i])}

\* candidates is the sources at the kept positions, in their order.
KeepsExactly(candidates, sources, byReference) ==
    /\ Len(candidates) = Cardinality(KeptPositions(sources, byReference))
    /\ \A i \in KeptPositions(sources, byReference) :
           candidates[Cardinality({j \in KeptPositions(sources, byReference) :
                                      j <= i})] = sources[i]

\* C21: within one poll, candidates are deduplicated by reference identity and
\* never by value equality: a value is dropped only when the very same
\* reference was collected before, structurally identical distinct objects are
\* both kept in collection order, and no value is dropped because it equals
\* an earlier one.
C21_DedupByReference ==
    (phase = "loaded" /\ input.t = "object") =>
        KeepsExactly(outCandidates, ClaimedSources(input, FALSE), TRUE)

\* C21, amended: objects are deduplicated by reference identity, primitives
\* (strings, numbers, booleans, null) by value.
C21_DedupLikeSet ==
    (phase = "loaded" /\ input.t = "object") =>
        KeepsExactly(outCandidates, ClaimedSources(input, FALSE), FALSE)

\* A bridge holds S1 twice and an object with the same properties once: S1 is
\* collected once, its twin is collected too, in collection order.
C21_Witness ==
    /\ phase = "loaded"
    /\ input.t = "object"
    /\ input.id = 52
    /\ Get(input, "toolOutput") = S1
    /\ Get(input, "output") = S1Twin
    /\ Get(input, "widgetState") = S1
    /\ Get(input, "getState").v = Str("{\"rooms\":[]}")
    /\ outCandidates = <<S1, S1Twin, Str("{\"rooms\":[]}")>>

-----------------------------------------------------------------------------
(* Presentation: the rooms a search widget lists and the selection relay.  *)

TypeError == [t |-> "TypeError"]

\* value is null or undefined: what `??` and `?.` test.
Nullish(value) == value.t \in {"null", "undefined"}

\* Boolean(value)
Truthy(value) ==
    CASE value.t \in {"null", "undefined"} -> FALSE
      [] value.t = "boolean" -> value.b
      [] value.t = "number" -> value.n # 0
      [] value.t = "string" -> value.s # ""
      [] OTHER -> TRUE

\* { ...room, property_id: room.property_id ?? hotelPropertyId }
SpreadRoom(room, hotelPropertyId) ==
    LET id == IF Nullish(Get(room, "property_id")) THEN hotelPropertyId
              ELSE Get(room, "property_id")
    IN  IF room.t # "object" THEN Obj(0, <<P("property_id", id)>>)
        ELSE IF HasOwn(room, "property_id")
        THEN Obj(0, [i \in 1..Len(room.fields) |->
                        IF room.fields[i].k = "property_id"
                        THEN P("property_id", id)
                        ELSE room.fields[i]])
        ELSE Obj(0, room.fields \o <<P("property_id", id)>>)

\* The body of the outer loop of flattenHotelsToRooms throws for this hotel:
\* a property of null or undefined is read, or matching_rooms is not
\* iterable.  (matching_rooms is never a string in the model.)
HotelThrows(hotel) ==
    \/ Nullish(hotel)
    \/ /\ hotel.t = "object"
       /\ LET matching == Get(hotel, "matching_rooms")
          IN  \/ matching.t \in {"number", "boolean", "object"}
              \/ /\ matching.t = "array"
                 /\ \E j \in 1..Len(matching.items) : Nullish(matching.items[j])

\* The rooms the outer loop pushes for this hotel.
HotelRooms(hotel) ==
    IF hotel.t = "object" /\ Get(hotel, "matching_rooms").t = "array"
    THEN [j \in 1..Len(Get(hotel, "matching_rooms").items) |->
             SpreadRoom(Get(hotel, "matching_rooms").items[j],
                        Get(hotel, "property_id"))]
    ELSE <<>>

RECURSIVE FlatRooms(_)
FlatRooms(hotels) ==
    IF hotels = <<>> THEN <<>>
    ELSE HotelRooms(Head(hotels)) \o FlatRooms(Tail(hotels))

\* flattenHotelsToRooms: the array of rooms, or the TypeError it throws when
\* hotels is not iterable (a non-zero number, true, an object that is no
\* array) or a hotel cannot be read.  A non-empty string is iterated by
\* character and gives no rooms.
flattenHotelsToRooms(hotels) ==
    IF ~Truthy(hotels) THEN Arr(<<>>)
    ELSE IF hotels.t = "array" /\ Len(hotels.items) = 0 THEN Arr(<<>>)
    ELSE IF hotels.t = "object" /\ Get(hotels, "length") = Num(0) THEN Arr(<<>>)
    ELSE IF hotels.t = "string" THEN Arr(<<>>)
    ELSE IF hotels.t # "array" THEN TypeError
    ELSE IF \E i \in 1..Len(hotels.items) : HotelThrows(hotels.items[i])
    THEN TypeError
    ELSE Arr(FlatRooms(hotels.items))

\* The `rooms` memo: payload.rooms when it is a non-empty array, the
\* flattened hotels otherwise.
rooms(current) ==
    IF Get(current, "rooms").t = "array" /\ Len(Get(current, "rooms").items) > 0
    THEN Get(current, "rooms")
    ELSE flattenHotelsToRooms(Get(current, "hotels"))

\* payload?.hotels?.[0]?.property_id
firstHotelPropertyId(current) ==
    LET hotels == Get(current, "hotels")
        first == IF hotels.t = "array" /\ Len(hotels.items) > 0
                 THEN hotels.items[1]
                 ELSE Undefined
    IN  IF Nullish(first) THEN Undefined ELSE Get(first, "property_id")

\* Variant of propertyId: `||` in place of `??`.
propertyIdOr(room, current) ==
    IF Truthy(Get(room, "property_id")) THEN Get(room, "property_id")
    ELSE IF Truthy(Get(current, "property_id")) THEN Get(current, "property_id")
    ELSE IF Truthy(firstHotelPropertyId(current))
    THEN firstHotelPropertyId(current)
    ELSE Null

\* room.property_id ?? payload?.property_id ??
\* payload?.hotels?.[0]?.property_id ?? null
propertyId(room, current) ==
    IF ~Nullish(Get(room, "property_id")) THEN Get(room, "property_id")
    ELSE IF ~Nullish(Get(current, "property_id")) THEN Get(current, "property_id")
    ELSE IF ~Nullish(firstHotelPropertyId(current))
    THEN firstHotelPropertyId(current)
    ELSE Null

\* The detail record of onBookNow.
detailOf(room, current) ==
    Obj(0, <<P("room_id", Get(room, "id")), P("room_name", Get(room, "name")),
             P("property_id", propertyId(room, current))>>)

-----------------------------------------------------------------------------
(* SelectSpec: a search widget that displays a payload, and the user's     *)
(* clicks on "Book now".                                                   *)

MaxSelections == 2

\* fields, with a property_id of value id unless id is undefined.
WithId(fields, id) ==
    IF id = Undefined THEN fields ELSE fields \o <<P("property_id", id)>>

ItemIds == {Undefined, Null, Str(""), Str("p-item")}

PayloadIds == {Undefined, Null, Str("p-payload")}

HotelIds == {Undefined, Str("p-hotel")}

Room1(id) == Obj(80, WithId(<<P("id", Str("r1")), P("name", Str("Deluxe"))>>, id))

Room2 == Obj(81, <<P("id", Str("r2")), P("name", Str("Twin"))>>)

Hotel(id, matching) ==
    Obj(82, WithId(<<P("property_name", Str("Sunset")),
                     P("matching_rooms", Arr(matching))>>, id))

\* Payloads that list rooms: under rooms, or under the hotels' matching_rooms.
SelectPayloads ==
    {Obj(83, WithId(<<P("rooms", Arr(<<Room1(item), Room2>>))>>, top)) :
         item \in ItemIds, top \in PayloadIds}
    \cup {Obj(84, WithId(<<P("rooms", Arr(<<Room1(item)>>)),
                           P("hotels", Arr(<<>>))>>, top)) :
              item \in ItemIds, top \in PayloadIds}
    \cup {Obj(85, WithId(<<P("rooms", Arr(<<Room1(item)>>)),
                           P("hotels", Arr(<<Hotel(hotel, <<Room2>>)>>))>>, top)) :
              item \in ItemIds, top \in PayloadIds, hotel \in HotelIds}
    \cup {Obj(86, WithId(<<P("rooms", Arr(<<>>)),
                           P("hotels", Arr(<<Hotel(hotel, <<Room1(item)>>)>>))>>,
                         top)) :
              item \in ItemIds, top \in PayloadIds, hotel \in HotelIds}

\* window.openai: absent, without callTool, or with a callTool that returns a
\* promise that fulfils, rejects or never settles, or that throws.
SelectBridges ==
    {Undefined, Obj(16, <<P("toolOutput", S1)>>)}
    \cup {Obj(17, <<P("callTool", Method(does, Undefined))>>) :
              does \in {"return", "reject", "hang", "throw"}}

SelectInit ==
    /\ widget \in {"SearchRoomsWidget", "SearchRoomsWidgetV2"}
    /\ mounted = TRUE
    /\ payload \in SelectPayloads
    /\ loading = FALSE
    /\ effect = "early"
    /\ effectDeps = payload
    /\ cancelled = FALSE
    /\ attempts = 0
    /\ timeoutId = 0
    /\ timers = {}
    /\ listener = FALSE
    /\ windowOpenai \in SelectBridges
    /\ tickBridge = Undefined
    /\ pc = 0
    /\ polls = 0
    /\ completed = 0
    /\ lateCalls = {}
    /\ input = Null
    /\ input2 = Null
    /\ outSearch = Null
    /\ outBooking = Null
    /\ outCoerce = Null
    /\ outCandidates = <<>>
    /\ sniffSearch = FALSE
    /\ sniffBooking = FALSE
    /\ phase = "select"
    /\ selectedRoomId = Null
    /\ picked = <<>>
    /\ awaiting = {}
    /\ dispatched = <<>>
    /\ posted = <<>>
    /\ parentThrows \in BOOLEAN
    /\ heap = <<>>
    /\ walkSearch = FALSE
    /\ stack = <<>>
    /\ returned = Null

\* onBookNow of SearchRoomsWidgetV2 suspends at `await bridge.callTool(...)`:
\* the bridge has a callTool and the call returns (a promise) instead of
\* throwing.  SearchRoomsWidget never calls callTool.
awaitsCallTool(w, bridge) ==
    /\ w = "SearchRoomsWidgetV2"
    /\ Get(bridge, "callTool").t = "function"
    /\ Get(bridge, "callTool").does # "throw"

\* window.dispatchEvent(new CustomEvent("monobook:room-select", { detail }))
\* and window.parent?.postMessage({ type, detail }, "*") in its try/catch, for
\* the n-th click.
Relay(n, detail) ==
    /\ dispatched' = Append(dispatched, [n |-> n, type |-> "monobook:room-select",
                                          detail |-> detail])
    /\ posted' = Append(posted, [n |-> n, type |-> "monobook.room_select",
                                  detail |-> detail, threw |-> parentThrows])

\* The user clicks "Book now" on one of the listed rooms.
onBookNow ==
    /\ phase = "select"
    /\ mounted /\ ~loading /\ ~Truthy(Get(payload, "error"))
    /\ Len(picked) < MaxSelections
    /\ rooms(payload).t = "array"
    /\ \E i \in 1..Len(rooms(payload).items) :
          LET room == rooms(payload).items[i]
              n == Len(picked) + 1
          IN  /\ picked' = Append(picked, room)
              /\ selectedRoomId' = Get(room, "id")
              /\ IF awaitsCallTool(widget, windowOpenai)
                 THEN /\ awaiting' = awaiting \cup
                            {[n |-> n, detail |-> detailOf(room, payload),
                              does |-> Get(windowOpenai, "callTool").does]}
                      /\ UNCHANGED <<dispatched, posted>>
                 ELSE /\ Relay(n, detailOf(room, payload))
                      /\ UNCHANGED awaiting
    /\ UNCHANGED <<parentThrows, widgetVars, extractVars, walkVars>>

\* The promise of a callTool call fulfils or rejects; onBookNow goes on to
\* the relay.
callToolSettles ==
    /\ \E call \in awaiting :
          /\ call.does # "hang"
          /\ awaiting' = awaiting \ {call}
          /\ Relay(call.n, call.detail)
    /\ UNCHANGED <<selectedRoomId, picked, parentThrows, widgetVars, extractVars,
                   walkVars>>

SelectNext ==
    \/ onBookNow
    \/ callToolSettles

SelectSpec == SelectInit /\ [][SelectNext]_vars

-----------------------------------------------------------------------------
(* Selection.                                                              *)

\* The id an object carries: its property_id unless that is missing or null.
IdOf(value) ==
    IF value.t = "object" /\ Get(value, "property_id").t \notin {"null", "undefined"}
    THEN Get(value, "property_id")
    ELSE Undefined

\* The first hotel of the payload (undefined when there is none).
FirstHotel(current) ==
    IF Get(current, "hotels").t = "array" /\ Len(Get(current, "hotels").items) > 0
    THEN Get(current, "hotels").items[1]
    ELSE Undefined

\* The property id claimed for a selection of item under the payload.
ClaimedPropertyId(item, current) ==
    IF IdOf(item) # Undefined THEN IdOf(item)
    ELSE IF IdOf(current) # Undefined THEN IdOf(current)
    ELSE IF IdOf(FirstHotel(current)) # Undefined THEN IdOf(FirstHotel(current))
    ELSE Null

\* C22: the detail emitted for a selection carries room_id and room_name of
\* the selected item, and as property_id the item's own id if present, else
\* the payload-level id if present, else the first hotel's id if present,
\* else null.
C22_DerivedPropertyId ==
    /\ \A i \in 1..Len(dispatched) :
           LET item == picked[dispatched[i].n]
               detail == dispatched[i].detail
           IN  /\ Get(detail, "property_id") = ClaimedPropertyId(item, payload)
               /\ Get(detail, "room_id") = Get(item, "id")
               /\ Get(detail, "room_name") = Get(item, "name")
    /\ \A i \in 1..Len(posted) :
           LET item == picked[posted[i].n]
               detail == posted[i].detail
           IN  /\ Get(detail, "property_id") = ClaimedPropertyId(item, payload)
               /\ Get(detail, "room_id") = Get(item, "id")
               /\ Get(detail, "room_name") = Get(item, "name")

\* The item has no id of its own, the payload has none, the first hotel has
\* one: the emitted detail carries the first hotel's id.
C22_Witness ==
    /\ Len(dispatched) > 0
    /\ IdOf(picked[dispatched[1].n]) = Undefined
    /\ IdOf(payload) = Undefined
    /\ IdOf(FirstHotel(payload)) = Str("p-hotel")
    /\ Get(dispatched[1].detail, "property_id") = Str("p-hotel")

\* C23: every selection of a room has resulted in a monobook:room-select
\* custom event on the window and in a postMessage of type
\* monobook.room_select to the parent frame with the identical detail, also
\* when postMessage throws, and in SearchRoomsWidgetV2 whether callTool is
\* absent, has resolved, has rejected or has not yet settled.
C23_ActionRelay ==
    phase = "select" =>
        \A n \in 1..Len(picked) :
            \E i \in 1..Len(dispatched), j \in 1..Len(posted) :
                /\ dispatched[i].n = n
                /\ posted[j].n = n
                /\ dispatched[i].type = "monobook:room-select"
                /\ posted[j].type = "monobook.room_select"
                /\ posted[j].detail = dispatched[i].detail

-----------------------------------------------------------------------------
(* The views.                                                              *)

\* What the render of the widget w shows for the state (isLoading, current):
\* the set of the views "loading" (skeleton), "error" (alert with
\* payload.error), "empty" and "populated" whose JSX condition holds.  The
\* memos run before the JSX on every render; when the rooms memo of a search
\* widget throws, the render throws and nothing is shown.
views(w, isLoading, current) ==
    IF w = "BookingCardWidget"
    THEN {v \in {"loading"} : isLoading}
         \cup {v \in {"error"} : ~isLoading /\ Truthy(Get(current, "error"))}
         \cup {v \in {"populated"} :
                  ~isLoading /\ ~Truthy(Get(current, "error")) /\ Truthy(current)}
         \cup {v \in {"empty"} :
                  ~isLoading /\ ~Truthy(Get(current, "error")) /\ ~Truthy(current)}
    ELSE IF rooms(current) = TypeError THEN {}
    ELSE {v \in {"loading"} : isLoading}
         \cup {v \in {"error"} : ~isLoading /\ Truthy(Get(current, "error"))}
         \cup {v \in {"empty"} :
                  /\ ~isLoading /\ ~Truthy(Get(current, "error"))
                  /\ Len(rooms(current).items) = 0}
         \cup {v \in {"populated"} :
                  /\ ~isLoading /\ ~Truthy(Get(current, "error"))
                  /\ Len(rooms(current).items) # 0}

\* The payload carries a non-empty error.
HasError(current) ==
    Get(current, "error").t = "string" /\ Get(current, "error").s # ""

\* The number of rooms a search payload lists: its rooms, or, when it has
\* none, the matching rooms of its hotels.
RECURSIVE MatchingCount(_)
MatchingCount(hotels) ==
    IF hotels = <<>> THEN 0
    ELSE (IF Get(Head(hotels), "matching_rooms").t = "array"
          THEN Len(Get(Head(hotels), "matching_rooms").items)
          ELSE 0) + MatchingCount(Tail(hotels))

ItemCount(current) ==
    IF Get(current, "rooms").t = "array" /\ Len(Get(current, "rooms").items) > 0
    THEN Len(Get(current, "rooms").items)
    ELSE IF Get(current, "hotels").t = "array"
    THEN MatchingCount(Get(current, "hotels").items)
    ELSE 0

\* The one view claimed for a state.
ClaimedView(w, isLoading, current) ==
    IF isLoading THEN "loading"
    ELSE IF HasError(current) THEN "error"
    ELSE IF current = Null THEN "empty"
    ELSE IF w = "BookingCardWidget" THEN "populated"
    ELSE IF ItemCount(current) = 0 THEN "empty"
    ELSE "populated"

\* C24: in every state of a mounted widget exactly one view is shown: the
\* skeleton while loading; else the error alert when the payload carries a
\* non-empty error; else the empty state when there is no payload or it lists
\* no items; else the populated card(s).  Exhausted with a null payload shows
\* the empty state.
C24_ExactlyOneView ==
    (phase = "widget" /\ mounted) =>
        views(widget, loading, payload) = {ClaimedView(widget, loading, payload)}

\* The tick in flight awaits an accessor call that never settles.
AwaitsForever == pc # 0 /\ Get(tickBridge, BRIDGE_METHODS[pc]).does = "hang"

-----------------------------------------------------------------------------
(* The order of the extraction steps.                                      *)

\* What each step of the extractor finds in a record, in the claimed order:
\* a structuredContent the sniffer accepts, the first match under a wrapper
\* key, the first match in the content texts, the record itself when the
\* sniffer accepts it, the first own value the sniffer accepts.
StepResults(search, record) ==
    LET structured == coerceToRecord(Get(record, "structuredContent"))
        texts == contentTexts(record)
    IN  <<IF structured # Null /\ Sniffs(search, structured)
          THEN structured ELSE Null,
          FirstNonNull([i \in 1..Len(WRAPPER_KEYS) |->
              Extracts(search, Get(record, WRAPPER_KEYS[i]))]),
          FirstNonNull([i \in 1..Len(texts) |-> Extracts(search, texts[i])]),
          IF Sniffs(search, record) THEN record ELSE Null,
          IF search THEN nestedSearch(record) ELSE nestedBooking(record)>>

\* C26: the steps of each extractor are tried in strict order and the first
\* match wins: a structuredContent the sniffer accepts, else a match under a
\* wrapper key, else a match in a content text, else the record itself when
\* the sniffer accepts it, else a directly nested value the sniffer accepts.
C26_StepOrder ==
    (phase = "out" /\ outCoerce # Null) =>
        /\ outSearch = FirstNonNull(StepResults(TRUE, outCoerce))
        /\ outBooking = FirstNonNull(StepResults(FALSE, outCoerce))

-----------------------------------------------------------------------------
(* The priority of the wrapper keys.                                       *)

\* The claimed priority of the wrapper keys.
ClaimedWrapperOrder ==
    <<"result", "output", "data", "response", "toolResult", "tool_result",
      "toolOutput", "tool_output", "value">>

\* The positions in the claimed order of the wrapper keys of record under
\* which the extractor finds a match.
MatchingWrappers(search, record) ==
    {i \in 1..Len(ClaimedWrapperOrder) :
         Extracts(search, Get(record, ClaimedWrapperOrder[i])) # Null}

\* The wrapper sweep of record is reached: the structuredContent step has
\* returned nothing.
SweepReached(search, record) ==
    /\ record # Null
    /\ IF search THEN structuredContentSearch(record) = Null
       ELSE structuredContentBooking(record) = Null

\* out is what the extractor finds under the earliest wrapper key, in the
\* claimed order, that leads to a match.
EarliestWrapperIs(search, record, out) ==
    \A i \in MatchingWrappers(search, record) :
        (\A j \in MatchingWrappers(search, record) : i <= j)
            => out = Extracts(search, Get(record, ClaimedWrapperOrder[i]))

-----------------------------------------------------------------------------
(* The backoff schedule.                                                   *)

\* The claimed delay, in ms, of the tick scheduled after the k-th failed tick
\* of the widget w; 0 when none is scheduled.
ClaimedDelay(w, k) ==
    IF w = "BookingCardWidget"
    THEN IF k < 100 THEN 100 ELSE IF k < 140 THEN 500 ELSE 0
    ELSE IF k < 80 THEN 100 ELSE 0

\* C28: the k-th failed tick is the k-th tick run, and the next tick is
\* scheduled after it as claimed: in BookingCardWidget at 100 ms when
\* k < 100, at 500 ms when 100 <= k < 140 and not at all when k = 140 (100
\* ticks in the fast phase, then 40 in the slow phase, never fast again); in
\* the search widgets at 100 ms exactly when k < 80.
C28_TwoPhaseBackoff ==
    [][(phase = "widget" /\ attempts' # attempts) =>
          /\ attempts' = attempts + 1
          /\ polls' = attempts' /\ completed' = attempts'
          /\ attempts' <= IF widget = "BookingCardWidget" THEN 140 ELSE 80
          /\ timers' = IF ClaimedDelay(widget, attempts') = 0 THEN {}
                       ELSE {[id |-> attempts',
                              ms |-> ClaimedDelay(widget, attempts')]}
          /\ (timers # {} /\ timers' # {})
                 => \A old \in timers, new \in timers' : old.ms <= new.ms]_vars

\* The last tick of the fast phase of BookingCardWidget has failed and the
\* first tick of the slow phase is scheduled.
C28_Witness ==
    /\ phase = "widget" /\ widget = "BookingCardWidget" /\ mounted
    /\ attempts = 100
    /\ timers = {[id |-> 100, ms |-> 500]}

-----------------------------------------------------------------------------
(* Failing accessors.                                                      *)

\* The property of the bridge is an accessor method whose call throws or
\* rejects.
Fails(field) ==
    /\ field.k \in {AccessorOrder[i] : i \in 1..Len(AccessorOrder)}
    /\ field.v.t = "function"
    /\ field.v.does \in {"throw", "reject"}

\* The bridge without its failing accessor methods.
WithoutFailing(bridge) ==
    Obj(bridge.id, SelectSeq(bridge.fields, LAMBDA f : ~Fails(f)))

\* The defined values the bridge offers apart from its failing accessors:
\* static keys, results of the accessors that return, remaining properties.
Offered(bridge) ==
    {ClaimedSources(bridge, FALSE)[i] :
         i \in 1..Len(ClaimedSources(bridge, FALSE))} \ {Undefined}

\* C29: within one tick an accessor method that throws or rejects costs only
\* its own candidate: the candidates are those of the bridge without the
\* failing accessors, every static value, result of another accessor and
\* remaining property is among them, and the tick resolves to what it would
\* resolve to without the failing accessors.
C29_FailureIsolation ==
    (phase = "loaded" /\ input.t = "object") =>
        /\ outCandidates = bridgeCandidates(WithoutFailing(input))
        /\ \A value \in Offered(input) :
               \E i \in 1..Len(outCandidates) : outCandidates[i] = value
        /\ outSearch = loadBridgePayload("SearchRoomsWidgetV2", WithoutFailing(input))
        /\ outBooking = loadBridgePayload("BookingCardWidget", WithoutFailing(input))

\* getInitialState throws, getState rejects, no static key and no other
\* property holds a payload: the booking payload that getToolOutput returns
\* resolves the tick.
C29_Witness ==
    /\ phase = "loaded"
    /\ input = Obj(53, <<P("widgetState", U1),
                         P("getToolOutput", Method("return", K1)),
                         P("getState", Method("reject", U1)),
                         P("getInitialState", Method("throw", S1)),
                         P("toolOutput", U1)>>)
    /\ outBooking = K1
    /\ outSearch = Null
    /\ outCandidates = <<U1, K1>>

-----------------------------------------------------------------------------
(* The remaining properties.                                               *)

\* The own properties of the bridge that are no functions and whose key is no
\* static key.
RemainingFields(bridge) ==
    {bridge.fields[i] : i \in {j \in 1..Len(bridge.fields) :
         /\ bridge.fields[j].v.t # "function"
         /\ bridge.fields[j].k \notin {StaticOrder[k] : k \in 1..Len(StaticOrder)}}}

\* The property names of the bridges that start with an underscore.
UnderscoreKeys == {"_payload"}

\* The value is one of the candidates the harvest collected.
Harvested(value) == \E i \in 1..Len(outCandidates) : outCandidates[i] = value

\* The value is held by a static key of the bridge or returned by one of its
\* accessor methods.
OfferedEarlier(bridge, value) ==
    \E i \in 1..(Len(StaticOrder) + Len(AccessorOrder)) :
        ClaimedSources(bridge, FALSE)[i] = value

\* C30: every own property of the bridge that is no function and whose key is
\* no static key is harvested as a candidate, whatever its key name, and a
\* payload it holds resolves the tick.
C30_ThirdPhaseComplete ==
    (phase = "loaded" /\ input.t = "object") =>
        \A f \in RemainingFields(input) :
            /\ f.v # Undefined => Harvested(f.v)
            /\ Extracts(TRUE, f.v) # Null => outSearch # Null
            /\ Extracts(FALSE, f.v) # Null => outBooking # Null

\* C30, amended: every own property of the bridge that is no function, whose
\* key is no static key and does not start with an underscore is harvested as
\* a candidate, and a payload it holds resolves the tick; a property whose key
\* starts with an underscore is not harvested.
C30_ThirdPhaseNoUnderscore ==
    (phase = "loaded" /\ input.t = "object") =>
        \A f \in RemainingFields(input) :
            IF f.k \in UnderscoreKeys
            THEN ~OfferedEarlier(input, f.v) => ~Harvested(f.v)
            ELSE /\ f.v # Undefined => Harvested(f.v)
                 /\ Extracts(TRUE, f.v) # Null => outSearch # Null
                 /\ Extracts(FALSE, f.v) # Null => outBooking # Null

\* The only payload of the bridge sits under widgetState, after an accessor
\* and a static key that yield nothing: it resolves the tick.
C30_Witness ==
    /\ phase = "loaded"
    /\ input = Obj(50, <<P("widgetState", S1),
                         P("getToolOutput", Method("return", U1)),
                         P("state", U1)>>)
    /\ outCandidates = <<U1, S1>>
    /\ outSearch = S1

-----------------------------------------------------------------------------
(* A structuredContent the booking sniffer rejects.                        *)

\* The record has a structuredContent that coerces to a record without
\* booking data.
RejectedStructured(record) ==
    LET structured == coerceToRecord(Get(record, "structuredContent"))
    IN  record # Null /\ structured # Null /\ ~hasBookingData(structured)

\* C31: in the booking extractor a structuredContent that is coercible but
\* fails hasBookingData does not end the search: the wrapper sweep, the content
\* sweep, the record itself and its directly nested values are still tried on
\* the same record, the first of them to match is returned, and nothing is
\* returned only if all of them fail.
C31_RejectedStructuredGoesOn ==
    (phase = "out" /\ RejectedStructured(outCoerce)) =>
        LET later == SubSeq(StepResults(FALSE, outCoerce), 2, 5)
        IN  /\ outBooking = FirstNonNull(later)
            /\ outBooking = Null <=> \A i \in 1..Len(later) : later[i] = Null

\* The structuredContent is a search payload without booking data and the
\* wrapper key result holds a booking payload: the booking payload is
\* returned, although the record itself carries booking_id.
C31_Witness ==
    /\ phase = "out"
    /\ input = Obj(44, <<P("rooms", Arr(<<>>)), P("booking_id", Str("b0")),
                         P("result", K2), P("structuredContent", S1)>>)
    /\ RejectedStructured(outCoerce)
    /\ outBooking = K2

-----------------------------------------------------------------------------
(* WalkSpec: the extractor run call by call on a graph of objects.  A       *)
(* property of an object may hold a reference to an object of the graph, so *)
(* that an object can reach itself.                                         *)

\* The engine's limit on the number of nested calls.
MaxDepth == 6

\* A reference to the object n of the graph.
Ref(n) == [t |-> "ref", to |-> n]

\* What a call that exceeds the engine's stack limit throws.
RangeError == [t |-> "RangeError"]

\* The outermost call has not returned yet.
Running == [t |-> "running"]

\* The value a property holds: the object a reference points to, or the value.
Deref(value) == IF value.t = "ref" THEN heap[value.to] ELSE value

\* Graphs of objects; the candidate is object 1.  A chain of wrapper keys
\* that ends in a payload or in nothing; an object reached through two keys;
\* an object that holds itself under a wrapper key, with recognized keys of its
\* own, with a structuredContent, with another wrapper key tried before or
\* after; two objects that hold each other.
Heaps ==
    {<<Obj(91, <<P("result", Ref(2))>>), Obj(92, <<P("data", Ref(3))>>),
       Obj(93, <<P("value", Ref(4))>>), leaf>> : leaf \in {S1, K1, U1}}
    \cup {<<Obj(91, <<P("result", Ref(2)), P("data", Ref(2))>>), leaf>> :
              leaf \in {S1, K1, U1}}
    \cup {<<Obj(94, <<P("rooms", Arr(<<>>)), P("booking_id", Str("b0")),
                      P(key, Ref(1))>>)>> : key \in {"result", "data", "value"}}
    \cup {<<Obj(95, <<P("structuredContent", structured), P("result", Ref(1))>>)>> :
              structured \in {S1, K1, U1, Str("{bad")}}
    \cup {<<Obj(96, <<P("booking_id", Str("b0")), P("rooms", Arr(<<>>)),
                      P("toolOutput", Ref(2))>>),
            Obj(97, <<P("value", Ref(1))>>)>>}
    \cup {<<Obj(98, <<P("value", Ref(1)), P("output", other)>>)>> :
              other \in {S1, K1, U1}}
    \cup {<<Obj(99, <<P("result", Ref(1)), P("value", other)>>)>> :
              other \in {S1, K1}}

WalkInit ==
    /\ widget = "SearchRoomsWidgetV2"
    /\ mounted = FALSE
    /\ payload = Null
    /\ loading = FALSE
    /\ effect = "none"
    /\ effectDeps = Null
    /\ cancelled = FALSE
    /\ attempts = 0
    /\ timeoutId = 0
    /\ timers = {}
    /\ listener = FALSE
    /\ windowOpenai = Undefined
    /\ tickBridge = Undefined
    /\ pc = 0
    /\ polls = 0
    /\ completed = 0
    /\ lateCalls = {}
    /\ input = Null
    /\ input2 = Null
    /\ outSearch = Null
    /\ outBooking = Null
    /\ outCoerce = Null
    /\ outCandidates = <<>>
    /\ sniffSearch = FALSE
    /\ sniffBooking = FALSE
    /\ phase = "walk"
    /\ selectedRoomId = Null
    /\ picked = <<>>
    /\ awaiting = {}
    /\ dispatched = <<>>
    /\ posted = <<>>
    /\ parentThrows = FALSE
    /\ heap \in Heaps
    /\ walkSearch \in BOOLEAN
    /\ stack = <<[rec |-> heap[1], key |-> 0]>>
    /\ returned = Running

\* The frame of the innermost call.
Top == stack[Len(stack)]

\* Variant of beforeSweep: a record that passes the sniffer is returned before
\* its wrapper keys are tried.
beforeSweepSelfFirst(search, record) ==
    LET structured == coerceToRecord(Deref(Get(record, "structuredContent")))
    IN  IF structured # Null /\ (search \/ hasBookingData(structured))
        THEN structured
        ELSE IF search /\ hasSearchRoomsData(record) THEN record
        ELSE IF ~search /\ hasBookingData(record) THEN record
        ELSE Null

\* The structuredContent step of either extractor: what the call returns
\* before the wrapper sweep, null when it goes on to the sweep.
beforeSweep(search, record) ==
    LET structured == coerceToRecord(Deref(Get(record, "structuredContent")))
    IN  IF structured # Null /\ (search \/ hasBookingData(structured))
        THEN structured
        ELSE Null

\* The steps after the wrapper sweep: the content texts, the record itself,
\* its own values.
afterSweep(search, record) ==
    LET texts == contentTexts(record)
        embedded == FirstNonNull([i \in 1..Len(texts) |->
                        IF search THEN extractStructuredPayload(texts[i])
                        ELSE extractBookingPayload(texts[i])])
        accepts(value) == IF search THEN hasSearchRoomsData(value)
                          ELSE hasBookingData(value)
    IN  IF embedded # Null THEN embedded
        ELSE IF accepts(record) THEN record
        ELSE FirstNonNull([i \in 1..Len(ObjectValues(record)) |->
                 LET nested == coerceToRecord(Deref(ObjectValues(record)[i]))
                 IN  IF nested # Null /\ accepts(nested) THEN nested ELSE Null])

\* The innermost call returns value: `if (extracted) return extracted;` in
\* every caller hands a result up to the outermost call at once; after null
\* the caller goes on with its next wrapper key.
return(value) ==
    IF value # Null \/ Len(stack) = 1
    THEN /\ stack' = <<>>
         /\ returned' = value
    ELSE /\ stack' = [SubSeq(stack, 1, Len(stack) - 1) EXCEPT
                          ![Len(stack) - 1].key = @ + 1]
         /\ UNCHANGED returned

\* A call starts: coerceToRecord and the structuredContent step.
extractEnter ==
    /\ phase = "walk" /\ stack # <<>> /\ Top.key = 0
    /\ LET record == coerceToRecord(Top.rec)
       IN  IF record = Null THEN return(Null)
           ELSE IF beforeSweep(walkSearch, record) # Null
           THEN return(beforeSweep(walkSearch, record))
           ELSE /\ stack' = [stack EXCEPT ![Len(stack)].key = 1]
                /\ UNCHANGED returned
    /\ UNCHANGED <<heap, walkSearch, widgetVars, extractVars, selectVars>>

\* The wrapper sweep calls the extractor on record[key].
extractCall ==
    /\ phase = "walk" /\ stack # <<>> /\ Top.key \in 1..Len(WRAPPER_KEYS)
    /\ Len(stack) < MaxDepth
    /\ stack' = Append(stack,
           [rec |-> Deref(Get(coerceToRecord(Top.rec), WRAPPER_KEYS[Top.key])),
            key |-> 0])
    /\ UNCHANGED <<heap, walkSearch, returned, widgetVars, extractVars, selectVars>>

\* The call on record[key] exceeds the stack limit: the engine throws a
\* RangeError, which no caller catches.
extractOverflow ==
    /\ phase = "walk" /\ stack # <<>> /\ Top.key \in 1..Len(WRAPPER_KEYS)
    /\ Len(stack) >= MaxDepth
    /\ stack' = <<>>
    /\ returned' = RangeError
    /\ UNCHANGED <<heap, walkSearch, widgetVars, extractVars, selectVars>>

\* The wrapper sweep found nothing: the remaining steps.
extractRest ==
    /\ phase = "walk" /\ stack # <<>> /\ Top.key = Len(WRAPPER_KEYS) + 1
    /\ return(afterSweep(walkSearch, coerceToRecord(Top.rec)))
    /\ UNCHANGED <<heap, walkSearch, widgetVars, extractVars, selectVars>>

WalkNext ==
    \/ extractEnter
    \/ extractCall
    \/ extractOverflow
    \/ extractRest

\* A running call takes its next step.
WalkSpec == WalkInit /\ [][WalkNext]_vars /\ WF_vars(WalkNext)

-----------------------------------------------------------------------------
(* Recursion depth.                                                        *)

\* The pairs (a, b) of objects of the graph h such that a property of a whose
\* key is in keys holds a reference to b.
RefEdges(h, keys) ==
    {e \in (DOMAIN h) \X (DOMAIN h) :
         /\ h[e[1]].t = "object"
         /\ \E i \in 1..Len(h[e[1]].fields) :
                /\ h[e[1]].fields[i].k \in keys
                /\ h[e[1]].fields[i].v = Ref(e[2])}

\* b is reached from a along one to n edges.
RECURSIVE Reaches(_, _, _, _)
Reaches(edges, a, b, n) ==
    /\ n > 0
    /\ \/ <<a, b>> \in edges
       \/ \E e \in edges : e[1] = a /\ Reaches(edges, e[2], b, n - 1)

\* The keys of all properties of the graph.
AllKeys(h) ==
    UNION {{h[a].fields[i].k : i \in 1..Len(h[a].fields)} : a \in DOMAIN h}

\* No object of the graph reaches itself.
Acyclic(h) ==
    \A a \in DOMAIN h : ~Reaches(RefEdges(h, AllKeys(h)), a, a, Len(h))

WrapperNames == {ClaimedWrapperOrder[i] : i \in 1..Len(ClaimedWrapperOrder)}

\* The candidate reaches itself through wrapper keys.
SelfThroughWrapper(h) == Reaches(RefEdges(h, WrapperNames), 1, 1, Len(h))

\* The objects on the cycles through the candidate.
CycleObjects(h) ==
    {a \in DOMAIN h :
         \/ a = 1
         \/ /\ Reaches(RefEdges(h, WrapperNames), 1, a, Len(h))
            /\ Reaches(RefEdges(h, WrapperNames), a, 1, Len(h))}

\* No object on the cycle has a structuredContent the sniffer accepts.
NoAcceptedStructured(search, h) ==
    \A a \in CycleObjects(h) :
        LET structured == coerceToRecord(Deref(Get(h[a], "structuredContent")))
        IN  ~(structured # Null /\ Sniffs(search, structured))

\* No object on the cycle has a structuredContent that coerces to a record.
NoCoercibleStructured(h) ==
    \A a \in CycleObjects(h) :
        coerceToRecord(Deref(Get(h[a], "structuredContent"))) = Null

\* On every object of the cycle the wrapper keys that come before the key
\* that leads on along the cycle hold nothing the extractor finds a payload
\* in.
NothingBeforeCycleKey(search, h) ==
    \A a \in CycleObjects(h) :
        \A i \in 1..Len(ClaimedWrapperOrder) :
            (/\ Get(h[a], ClaimedWrapperOrder[i]).t = "ref"
             /\ \A j \in 1..(i - 1) : Get(h[a], ClaimedWrapperOrder[j]).t # "ref")
                => \A j \in 1..(i - 1) :
                       Extracts(search, Get(h[a], ClaimedWrapperOrder[j])) = Null

\* The value the object a of an acyclic graph stands for: every reference
\* replaced by the value of the object it points to.
RECURSIVE Unfold(_, _)
Unfold(h, value) ==
    IF value.t = "ref" THEN Unfold(h, h[value.to])
    ELSE IF value.t = "object"
    THEN Obj(value.id, [i \in 1..Len(value.fields) |->
             P(value.fields[i].k, Unfold(h, value.fields[i].v))])
    ELSE value

\* The outermost call has returned a result (a payload or null).
Returned == returned \notin {Running, RangeError}

-----------------------------------------------------------------------------
(* A hung accessor call.                                                   *)

\* The payloads a message event can resolve the widget w to.
MessagePayloads(w) == {Extract(w, data) : data \in MessageData} \ {Null}

\* C33: an accessor call that never settles stalls only its poll tick: while
\* the widget is mounted and its polling effect not cleaned up, the message
\* listener stays attached and a message resolves the widget (payload set,
\* loading false); the tick never completes, so no next tick is scheduled or
\* started, the attempt counter does not advance, and loading stays true for
\* as long as no message resolves.
C33_HungCallStallsOneTick ==
    [][(phase = "widget" /\ AwaitsForever) =>
          /\ AwaitsForever'
          /\ attempts' = attempts /\ polls' = polls /\ completed' = completed
          /\ timers = {} /\ timers' = {}
          /\ (mounted /\ ~cancelled) => (listener /\ ~cancelledOnMessage)
          /\ payload' # payload =>
                 /\ mounted /\ ~cancelled
                 /\ payload' \in MessagePayloads(widget)
                 /\ loading' = FALSE
          /\ (payload = Null /\ payload' = Null) => (loading /\ loading')]_vars

\* A tick is suspended on an accessor call that never settles, and a message
\* has resolved the widget in the meantime.
C33_Witness ==
    /\ phase = "widget" /\ mounted
    /\ AwaitsForever
    /\ polls = 1 /\ completed = 0 /\ attempts = 0
    /\ payload \in MessagePayloads(widget)
    /\ ~loading
    /\ effect = "poll" /\ listener

-----------------------------------------------------------------------------
(* After exhaustion.                                                       *)

\* The total attempt budget claimed for the widget w.
ClaimedBudget(w) == IF w = "BookingCardWidget" THEN 140 ELSE 80

\* C34: Exhausted is not absorbing while mounted: once the attempt budget is
\* used up, loading is false and stays false, the message listener is still
\* attached while the widget is mounted with payload null, a later message
\* is what sets the payload, and no poll tick is started, awaited or
\* scheduled again.
C34_ExhaustedNotAbsorbing ==
    [][(phase = "widget" /\ attempts = ClaimedBudget(widget)) =>
          /\ ~loading /\ ~loading'
          /\ (mounted /\ payload = Null) => (listener /\ ~cancelledOnMessage)
          /\ payload' # payload =>
                 /\ mounted /\ listener
                 /\ payload' \in MessagePayloads(widget)
          /\ polls' = polls /\ completed' = completed /\ attempts' = attempts
          /\ pc = 0 /\ pc' = 0 /\ timers = {} /\ timers' = {}]_vars

\* The budget was used up and a later message has set the payload: Exhausted
\* to Resolved, loading false.
C34_Witness ==
    /\ phase = "widget" /\ mounted
    /\ attempts = ClaimedBudget(widget)
    /\ polls = attempts /\ completed = attempts
    /\ payload \in MessagePayloads(widget)
    /\ ~loading

-----------------------------------------------------------------------------
(* Accessor calls after the cleanup.                                       *)

\* C35: once the widget is unmounted, or has resolved and its polling effect
\* was cleaned up, no further bridge accessor method is invoked, including
\* the accessors that follow an in-flight one within the same poll tick.
C35_NoAccessorAfterCleanup ==
    phase = "widget" => lateCalls = {}

-----------------------------------------------------------------------------
(* The polling chain.                                                      *)

\* C36: at most one poll tick is in flight and at most one retry timer is
\* pending, never both at once; the attempt counter starts at 0, increases by
\* exactly one per failed tick, never decreases and never exceeds the total
\* attempt budget.
C36_SinglePollingChain ==
    [][phase = "widget" =>
          /\ polls - completed \in {0, 1}
          /\ (pc # 0) <=> (polls - completed = 1)
          /\ Cardinality(timers) <= 1
          /\ ~(pc # 0 /\ timers # {})
          /\ attempts \in 0..ClaimedBudget(widget)
          /\ polls = 0 => attempts = 0
          /\ attempts' \in {attempts, attempts + 1}
          /\ attempts' = attempts + 1 <=>
                 (completed' = completed + 1 /\ TickResult = Null /\ ~cancelled)]_vars

\* A tick is in flight in the middle of the chain: earlier ticks have failed,
\* no timer is pending.
C36_Witness ==
    /\ phase = "widget" /\ mounted
    /\ pc # 0 /\ polls = completed + 1
    /\ attempts = 3 /\ completed = 3
    /\ timers = {}

-----------------------------------------------------------------------------
(* Loading and the payload.                                                *)

\* C37: loading never goes from false back to true, and in every reachable
\* state a non-null payload implies that loading is false: every step that
\* sets the payload (bootstrap, poll success, message) ends loading with it.
C37_LoadingMonotone ==
    [][phase = "widget" =>
          /\ ~loading => ~loading'
          /\ payload # Null => ~loading
          /\ payload' # Null => ~loading']_vars

\* A poll tick has found the payload: loading ended in the step that set it.
C37_Witness ==
    /\ phase = "widget" /\ mounted
    /\ payload # Null /\ ~loading
    /\ effect = "poll" /\ effectDeps = Null
    /\ completed >= 1 /\ payload = bridgePayloads[widget][windowOpenai]
    /\ attempts < completed

-----------------------------------------------------------------------------
(* Messages that yield nothing.                                            *)

\* C38: a message event from which the extractor yields nothing leaves
\* everything unchanged: in no reachable state does its delivery change the
\* payload, loading, the attempt counter, the pending retry timer or any other
\* part of the state.
C38_EmptyMessageChangesNothing ==
    phase = "widget" =>
        \A data \in MessageData :
            Extract(widget, data) = Null => ~ENABLED <<onMessage(data)>>_vars

\* The widget is polling with its listener attached, a retry timer is pending
\* and earlier ticks have failed: a message that yields nothing can arrive.
C38_Witness ==
    /\ phase = "widget" /\ mounted
    /\ listener /\ ~cancelledOnMessage
    /\ loading /\ payload = Null
    /\ attempts = 2 /\ timers # {}
    /\ \E data \in MessageData : Extract(widget, data) = Null

-----------------------------------------------------------------------------
(* The nested-value fallback.                                              *)

\* The first four steps find nothing in the record: no structuredContent the
\* sniffer accepts, no match under a wrapper key or in a content text, and
\* the sniffer rejects the record itself.
FallbackReached(search, record) ==
    \A i \in 1..4 : StepResults(search, record)[i] = Null

\* The first own value of the record, in key order, that coerces to a record
\* the sniffer accepts; null when there is none.
FirstOwnAccepted(search, record) ==
    LET values == ObjectValues(record)
        accepted == {i \in 1..Len(values) :
                        Coerced(values[i]) # Null /\ Sniffs(search, Coerced(values[i]))}
    IN  IF accepted = {} THEN Null
        ELSE Coerced(values[CHOOSE i \in accepted : \A j \in accepted : i <= j])

\* C39: the nested-value fallback looks exactly one level down: when no
\* structuredContent, wrapper key or content entry matches and the sniffer
\* rejects the record itself, the extractor returns the first own value, in
\* key order, that coerces to a record the sniffer accepts, and nothing when
\* there is none, also when an accepted record lies two or more levels below
\* under other keys.
C39_FallbackOneLevel ==
    (phase = "out" /\ outCoerce # Null) =>
        /\ FallbackReached(TRUE, outCoerce)
               => outSearch = FirstOwnAccepted(TRUE, outCoerce)
        /\ FallbackReached(FALSE, outCoerce)
               => outBooking = FirstOwnAccepted(FALSE, outCoerce)

====
